---- MODULE Spec2Model ----
\* Verification model of the nora agent core: the Orchestrator control loop
\* (agent-core/src/agent.ts) with the stores it dispatches to
\* (scratchpad.ts, running-summary.ts, task-manager.ts, planner.ts).
EXTENDS Integers, Sequences, FiniteSets, TLC

VARIABLES
    pc,               \* position of the chat() coroutine
    turnId,           \* Agent.turnId
    tasks,            \* TaskManager.tasks      (id -> Task), as a sequence in Map order
    currentTaskId,    \* TaskManager.currentTaskId (0 models null)
    chatTaskId,       \* chat(): const currentTaskId
    userInput,        \* chat(): the argument
    planning,         \* what retrieveContext and the planner call did in runPlanningPhase
    plan,             \* chat(): const plan
    turnCount,        \* chat(): let turnCount
    finalAnswer,      \* chat(): let finalAnswer
    lastTurnMessages, \* chat(): let lastTurnMessages
    executionHistory, \* chat(): executionHistory, the part appended in the current turn
    focusQuery,       \* chat(): let focusQuery
    messagesForTurn,  \* the prompt handed to the last model call of the turn loop
    toolIdx,          \* executeTools(): position of the for..of loop over toolCalls
    toolSummaries,    \* executeTools(): const toolSummaries
    scratchpad,       \* ScratchpadManager.store
    runningSummary,   \* RunningSummaryManager.store
    stream,           \* Memory Stream units recorded by the MemoryManager
    pendingSummaries, \* summarizeToolOutput promises started and not yet settled
    modelCalls,       \* number of llm.chat calls the turn loop of this chat() has issued
    inFlight,         \* the await chat() is suspended on: none, model or a tool call
    invoked,          \* per tool call of the current reply: the callTool invocations
                      \* made for it, each with what the provider answered
    resolvable,       \* whether every reply of this chat() carried a resolvable tool call
    storeOp,          \* the last call made directly on a store, with the stores
                      \* as they were before it
    result,           \* how the last chat() ended: running, returned or thrown
    now,              \* Date.now()
    retrieval         \* Memoryer.retrieve(): the call in progress or the last one made

vars == <<pc, turnId, tasks, currentTaskId, chatTaskId, userInput, planning, plan, turnCount,
          finalAnswer, lastTurnMessages, executionHistory, focusQuery,
          messagesForTurn, toolIdx, toolSummaries, scratchpad, runningSummary,
          stream, pendingSummaries, modelCalls, inFlight, invoked, resolvable,
          result, now, storeOp, retrieval>>

-----------------------------------------------------------------------------
\* Bounds of the exploration.

MaxChats == 1        \* chat() invocations per behaviour
MaxCalls == 2        \* tool calls per model reply
MaxStream == 1       \* MemoryUnits recorded before every further summarization fails
MaxPending == 2      \* un-awaited summarizations outstanding, tool calls of a new reply included
RichTurns == 1       \* turns whose reply is any of RichReplies and whose summaries may
                     \* succeed; later replies are PlainReplies, later summaries fail
MaxTasks == 1        \* tasks the registry may hold

\* Program constant.
MAX_TURNS == 15

Null == "<null>"

-----------------------------------------------------------------------------
\* JSON texts the model may send as function.arguments, and what JSON.parse
\* makes of them.  A parsed value is [ok, isNull, obj]: ok = FALSE when
\* JSON.parse throws, isNull when the text is the JSON literal null, obj the
\* parsed object otherwise (a record holding exactly the fields of the text).

ArgTexts ==
    { "{bad",
      "null",
      "{}",
      "{path:p}",
      "{action:update,key:k,value:v}",
      "{action:update,key:k}",
      "{action:delete,key:k}",
      "{action:rename,key:k}",
      "{doing:d,next:n}",
      "{done:x,doing:d,next:n}" }

\* A JSON value whose type matters to the code: an array or a string.
JArray(items) == [array |-> TRUE,  items |-> items, text |-> ""]
JString(text) == [array |-> FALSE, items |-> <<>>,  text |-> text]

Unparsable == [ok |-> FALSE, isNull |-> FALSE, obj |-> [x \in {} |-> Null]]
ParsedNull == [ok |-> TRUE,  isNull |-> TRUE,  obj |-> [x \in {} |-> Null]]
Parsed(o)  == [ok |-> TRUE,  isNull |-> FALSE, obj |-> o]

\* The texts that are not JSON.
Malformed(text) == text = "{bad"

\* The value of a JSON text.
JSONvalue(text) ==
    CASE text = "null" -> ParsedNull
      [] text = "{}"   -> Parsed([x \in {} |-> Null])
      [] text = "{path:p}" -> Parsed([path |-> "p"])
      [] text = "{action:update,key:k,value:v}" ->
              Parsed([action |-> "update", key |-> "k", value |-> "v"])
      [] text = "{action:update,key:k}" ->
              Parsed([action |-> "update", key |-> "k"])
      [] text = "{action:delete,key:k}" ->
              Parsed([action |-> "delete", key |-> "k"])
      [] text = "{action:rename,key:k}" ->
              Parsed([action |-> "rename", key |-> "k"])
      [] text = "{doing:d,next:n}" ->
              Parsed([doing |-> "d", next |-> "n"])
      [] text = "{done:x,doing:d,next:n}" ->
              Parsed([done |-> JString("x"), doing |-> "d", next |-> "n"])
      [] text = "{query:q}" -> Parsed([query |-> "q"])
      [] text = "{ids:x}" -> Parsed([ids |-> JString("x")])
      [] text = "{ids:[]}" -> Parsed([ids |-> JArray(<<>>)])
      [] text = "{ids:[m1]}" -> Parsed([ids |-> JArray(<<"m1">>)])
      [] text = "{ids:[m2]}" -> Parsed([ids |-> JArray(<<"m2">>)])
      [] text = "{ids:[m3]}" -> Parsed([ids |-> JArray(<<"m3">>)])
      [] text = "{ids:[m1,m2]}" -> Parsed([ids |-> JArray(<<"m1", "m2">>)])
      [] text = "{ids:[m1,m1]}" -> Parsed([ids |-> JArray(<<"m1", "m1">>)])

\* A variant of JSONparse that answers an empty object for a text that is
\* not JSON.
JSONparse_lenient(text) ==
    IF Malformed(text) THEN Parsed([x \in {} |-> Null]) ELSE JSONvalue(text)

\* JSON.parse(text): throws on a text that is not JSON.
JSONparse(text) ==
    IF Malformed(text) THEN Unparsable ELSE JSONvalue(text)

\* args.f of a parsed object: undefined (Null) when the field is absent.
Field(o, f) == IF f \in DOMAIN o THEN o[f] ELSE Null

-----------------------------------------------------------------------------
\* Scratchpad Store (scratchpad.ts).  The Map of one task is a sequence of
\* entries in Map (first insertion) order.

TaskIds == 1..MaxTasks

KeyIndex(m, key) ==
    IF \E i \in 1..Len(m) : m[i].key = key
    THEN CHOOSE i \in 1..Len(m) : m[i].key = key
    ELSE 0

\* A variant of Map.set that adds an entry on every write.
MapSet_appends(m, e) == Append(m, e)

\* Map.set: an existing key keeps its position, a new key goes last.
MapSet(m, e) ==
    IF KeyIndex(m, e.key) = 0 THEN Append(m, e)
    ELSE [m EXCEPT ![KeyIndex(m, e.key)] = e]

\* Map.delete
MapDelete(m, key) ==
    SelectSeq(m, LAMBDA e : e.key # key)

\* A variant of getTaskStore that installs a new Map on every call.
GetTaskStore_resets(store, taskId) == [store EXCEPT ![taskId] = <<>>]

\* getTaskStore: the store after it made sure the task has a Map.  A task
\* without a Map and a task with an empty Map are both <<>>.
GetTaskStore(store, taskId) ==
    IF store[taskId] # <<>> THEN store ELSE [store EXCEPT ![taskId] = <<>>]

\* A variant of ScratchpadUpdate that loses the write.
ScratchpadUpdate_dropsWrite(store, taskId, key, value, ts) == store

ScratchpadUpdate(store, taskId, key, value, ts) ==
    [store EXCEPT ![taskId] =
        MapSet(GetTaskStore(store, taskId)[taskId],
               [key |-> key, value |-> value, timestamp |-> ts])]

\* A variant of ScratchpadDelete that leaves the entry in place.
ScratchpadDelete_keepsEntry(store, taskId, key) == store

ScratchpadDelete(store, taskId, key) ==
    [store EXCEPT ![taskId] = MapDelete(GetTaskStore(store, taskId)[taskId], key)]

\* A variant of clear that empties the store whatever the argument.
ScratchpadClear_all(store, taskId) == [t \in DOMAIN store |-> <<>>]

\* clear(taskId): store.delete(taskId); clear(): store.clear(), taskId = 0
\* standing for the call without argument.
ScratchpadClear(store, taskId) ==
    IF taskId = 0 THEN [t \in DOMAIN store |-> <<>>]
    ELSE [store EXCEPT ![taskId] = <<>>]

\* Array.prototype.sort((a, b) => a.timestamp - b.timestamp): stable.
RECURSIVE InsertByTimestamp(_, _)
InsertByTimestamp(sorted, e) ==
    IF sorted = <<>> THEN <<e>>
    ELSE IF sorted[Len(sorted)].timestamp <= e.timestamp THEN Append(sorted, e)
    ELSE Append(InsertByTimestamp(SubSeq(sorted, 1, Len(sorted) - 1), e),
                sorted[Len(sorted)])

RECURSIVE SortByTimestamp(_)
SortByTimestamp(m) ==
    IF m = <<>> THEN <<>>
    ELSE InsertByTimestamp(SortByTimestamp(SubSeq(m, 1, Len(m) - 1)), m[Len(m)])

\* A variant of getFormattedContent that lists the entries as the Map
\* iterates them, without sorting.
ScratchpadRender_unsorted(store, taskId) ==
    LET entries == GetTaskStore(store, taskId)[taskId]
    IN  [i \in 1..Len(entries) |-> <<entries[i].key, entries[i].value>>]

\* getFormattedContent: the empty text for an empty task store, else one
\* line per entry; the text is modelled as the sequence of its <<key, value>>
\* lines, <<>> being the empty string.
ScratchpadRender(store, taskId) ==
    LET entries == SortByTimestamp(GetTaskStore(store, taskId)[taskId])
    IN  [i \in 1..Len(entries) |-> <<entries[i].key, entries[i].value>>]

Falsy(v) == v = Null \/ v = ""

\* A variant of handleToolCall that takes every action other than update
\* for a delete.
ScratchpadHandleToolCall_deletesByDefault(store, taskId, args, ts) ==
    IF args.isNull
    THEN [threw |-> TRUE, text |-> "TypeError", store |-> store]
    ELSE LET action == Field(args.obj, "action")
             key    == Field(args.obj, "key")
             value  == Field(args.obj, "value")
         IN  IF Falsy(key)
             THEN [threw |-> TRUE, text |-> "Key is required", store |-> store]
             ELSE IF action = "update"
             THEN IF value = Null
                  THEN [threw |-> TRUE, text |-> "Value is required", store |-> store]
                  ELSE [threw |-> FALSE, text |-> "Scratchpad updated",
                        store |-> ScratchpadUpdate(store, taskId, key, value, ts)]
             ELSE [threw |-> FALSE, text |-> "Scratchpad key deleted",
                   store |-> ScratchpadDelete(store, taskId, key)]

\* handleToolCall: [threw, text, store]; threw = TRUE models the Error (or
\* the TypeError of destructuring null) leaving handleToolCall.
ScratchpadHandleToolCall(store, taskId, args, ts) ==
    IF args.isNull
    THEN [threw |-> TRUE, text |-> "TypeError", store |-> store]
    ELSE LET action == Field(args.obj, "action")
             key    == Field(args.obj, "key")
             value  == Field(args.obj, "value")
         IN  IF Falsy(key)
             THEN [threw |-> TRUE, text |-> "Key is required", store |-> store]
             ELSE IF action = "update"
             THEN IF value = Null
                  THEN [threw |-> TRUE, text |-> "Value is required", store |-> store]
                  ELSE [threw |-> FALSE, text |-> "Scratchpad updated",
                        store |-> ScratchpadUpdate(store, taskId, key, value, ts)]
             ELSE IF action = "delete"
             THEN [threw |-> FALSE, text |-> "Scratchpad key deleted",
                   store |-> ScratchpadDelete(store, taskId, key)]
             ELSE [threw |-> TRUE, text |-> "Unknown action", store |-> store]

-----------------------------------------------------------------------------
\* Running-Status Tracker (running-summary.ts).  A stored summary is a
\* function from field name to value; NoSummary models store.get = undefined.
\* The done field is the only one whose JSON type matters: it holds a JArray
\* or a JString.

NoSummary == [x \in {} |-> Null]

DefaultSummary(ts) ==
    [done |-> JArray(<<>>), doing |-> "", next |-> "", blockers |-> "",
     timestamp |-> ts]

\* A variant of the spread that starts from the defaults on every update.
Spread_fromDefaults(existing, summary, ts) ==
    [f \in (DOMAIN existing) \cup (DOMAIN summary) \cup {"timestamp"} |->
        IF f = "timestamp" THEN ts
        ELSE IF f \in DOMAIN summary THEN summary[f]
        ELSE DefaultSummary(ts)[f]]

\* { ...existing, ...summary, timestamp: Date.now() }
Spread(existing, summary, ts) ==
    [f \in (DOMAIN existing) \cup (DOMAIN summary) \cup {"timestamp"} |->
        IF f = "timestamp" THEN ts
        ELSE IF f \in DOMAIN summary THEN summary[f]
        ELSE existing[f]]

\* A variant of update that empties blockers when the call leaves it out.
RunningSummaryUpdate_resetsBlockers(store, taskId, summary, ts) ==
    LET existing == IF store[taskId] = NoSummary THEN DefaultSummary(ts)
                    ELSE store[taskId]
        merged   == Spread(existing, summary, ts)
    IN  [store EXCEPT ![taskId] =
            IF "blockers" \in DOMAIN summary THEN merged
            ELSE [merged EXCEPT !.blockers = ""]]

RunningSummaryUpdate(store, taskId, summary, ts) ==
    LET existing == IF store[taskId] = NoSummary THEN DefaultSummary(ts)
                    ELSE store[taskId]
    IN  [store EXCEPT ![taskId] = Spread(existing, summary, ts)]

\* clear(taskId): store.delete(taskId); clear(): store.clear(), taskId = 0
\* standing for the call without argument.
RunningSummaryClear(store, taskId) ==
    IF taskId = 0 THEN [t \in DOMAIN store |-> NoSummary]
    ELSE [store EXCEPT ![taskId] = NoSummary]

\* getFormattedContent: [threw, text]; summary.done.join is a TypeError when
\* done is a non-empty string (length > 0 and no join method).  The text is
\* modelled by the fields it shows, <<>> being the empty string.
RunningSummaryRender(store, taskId) ==
    LET summary == store[taskId]
    IN  IF summary = NoSummary
        THEN [threw |-> FALSE, text |-> <<>>]
        ELSE IF ~summary.done.array /\ summary.done.text # ""
        THEN [threw |-> TRUE, text |-> <<>>]
        ELSE [threw |-> FALSE,
              text |-> <<summary.done.items, summary.doing, summary.next,
                         summary.blockers>>]

\* A variant of handleToolCall that appends the done items of the call to
\* the stored ones.
RunningSummaryHandleToolCall_appendsDone(store, taskId, args, ts) ==
    LET summary == IF args.isNull THEN NoSummary ELSE args.obj
        stored  == IF store[taskId] = NoSummary THEN <<>>
                   ELSE store[taskId].done.items
        merged  == IF "done" \in DOMAIN summary /\ summary.done.array
                   THEN [summary EXCEPT !.done = JArray(stored \o summary.done.items)]
                   ELSE summary
        after   == RunningSummaryUpdate(store, taskId, merged, ts)
    IN  IF RunningSummaryRender(after, taskId).threw
        THEN [threw |-> TRUE, text |-> "TypeError", store |-> after]
        ELSE [threw |-> FALSE, text |-> "Running Summary updated successfully.",
              store |-> after]

\* handleToolCall: update, whose closing Logger.runningSummaryUpdate renders
\* the summary just stored; [threw, text, store].
RunningSummaryHandleToolCall(store, taskId, args, ts) ==
    LET summary == IF args.isNull THEN NoSummary ELSE args.obj
        after   == RunningSummaryUpdate(store, taskId, summary, ts)
    IN  IF RunningSummaryRender(after, taskId).threw
        THEN [threw |-> TRUE, text |-> "TypeError", store |-> after]
        ELSE [threw |-> FALSE, text |-> "Running Summary updated successfully.",
              store |-> after]

-----------------------------------------------------------------------------
\* Task Registry (task-manager.ts).  tasks is the Map as a sequence of Tasks
\* in insertion order; currentTaskId = 0 models null.

HasTask(ts, id) == \E i \in 1..Len(ts) : ts[i].id = id

\* A variant of createTask that adds the task without switching to it.
CreateTask_keepsCurrent(ts, title, id, time) ==
    [tasks |-> Append(ts, [id |-> id, title |-> title, status |-> "active",
                           createdAt |-> time]),
     currentTaskId |-> IF ts = <<>> THEN id ELSE ts[1].id]

\* createTask: randomUUID() is modelled by an id no task holds.
CreateTask(ts, title, id, time) ==
    [tasks |-> Append(ts, [id |-> id, title |-> title, status |-> "active",
                           createdAt |-> time]),
     currentTaskId |-> id]

\* A variant of updateTaskTitle that retitles every task.
UpdateTaskTitle_all(ts, id, title) ==
    [i \in 1..Len(ts) |-> [ts[i] EXCEPT !.title = title]]

\* updateTaskTitle: the tasks after the call.
UpdateTaskTitle(ts, id, title) ==
    [i \in 1..Len(ts) |-> IF ts[i].id = id THEN [ts[i] EXCEPT !.title = title]
                          ELSE ts[i]]

\* A variant of switchTask that does not look the id up.
SwitchTask_unchecked(ts, current, id) == [ok |-> TRUE, currentTaskId |-> id]

\* switchTask: [ok, currentTaskId].
SwitchTask(ts, current, id) ==
    IF HasTask(ts, id) THEN [ok |-> TRUE, currentTaskId |-> id]
    ELSE [ok |-> FALSE, currentTaskId |-> current]

\* A variant of getCurrentTaskId that creates a default task on every call.
GetCurrentTaskId_alwaysCreates(ts, current, id, time) ==
    CreateTask(ts, "Default Task", id, time)

\* getCurrentTaskId: [tasks, currentTaskId], the id returned being the new
\* currentTaskId; id is the one randomUUID gives if a task is created.
GetCurrentTaskId(ts, current, id, time) ==
    IF current = 0 THEN CreateTask(ts, "Default Task", id, time)
    ELSE [tasks |-> ts, currentTaskId |-> current]

-----------------------------------------------------------------------------
\* Planner (planner.ts).  PlannerTexts are the reply contents of the planner
\* model call; Null is a reply without content.

PlannerTexts ==
    { Null, "garbage", "null", "{steps:[]}", "{steps:[null]}",
      "fence{steps:[s1,s2]}fence", "{steps:[s1],taskTitle:t}" }

\* jsonMatch ? jsonMatch[1] : content, a fenced block being written fence..fence
FencedBody(content) ==
    IF content = "fence{steps:[s1,s2]}fence" THEN "{steps:[s1,s2]}" ELSE content

PlanJSONparse(text) ==
    CASE text = "garbage" -> Unparsable
      [] text = "null"    -> ParsedNull
      [] text = "{}"      -> Parsed([x \in {} |-> Null])
      [] text = "{steps:[]}" -> Parsed([steps |-> <<>>])
      [] text = "{steps:[null]}" -> Parsed([steps |-> <<Null>>])
      [] text = "{steps:[s1,s2]}" -> Parsed([steps |-> <<"s1", "s2">>])
      [] text = "{steps:[s1],taskTitle:t}" ->
              Parsed([steps |-> <<"s1">>, taskTitle |-> "t"])

\* createPlan after the model call: [threw, plan]; plan is the parsed value.
CreatePlan(responseContent) ==
    LET content == IF Falsy(responseContent) THEN "{}" ELSE responseContent
        parsed  == PlanJSONparse(FencedBody(content))
    IN  [threw |-> ~parsed.ok, plan |-> parsed]

NoPlan == ParsedNull

\* A variant of PlanHasSteps that does not look at the length of steps.
PlanHasSteps_ignoresLength(p) ==
    /\ ~p.isNull
    /\ "steps" \in DOMAIN p.obj

\* plan && plan.steps && plan.steps.length > 0
PlanHasSteps(p) ==
    /\ ~p.isNull
    /\ "steps" \in DOMAIN p.obj
    /\ Len(p.obj.steps) > 0

\* What the model call of the planner may do: throw, or reply with content.
PlannerOutcomes ==
    { [threw |-> TRUE, content |-> Null] }
    \cup { [threw |-> FALSE, content |-> c] : c \in PlannerTexts }

\* A variant of runPlanningPhase without its try/catch.
RunPlanningPhase_uncaught(recall, planner) ==
    IF recall.threw \/ planner.threw THEN [threw |-> TRUE, plan |-> NoPlan]
    ELSE IF CreatePlan(planner.content).threw
    THEN [threw |-> TRUE, plan |-> NoPlan]
    ELSE [threw |-> FALSE, plan |-> CreatePlan(planner.content).plan]

\* runPlanningPhase: [threw, plan].  Everything is inside one try whose catch
\* only logs, so it never throws.  The plan stays null when retrieveContext
\* throws, when the model call of createPlan throws or when createPlan
\* throws.  Once createPlan has returned the plan is assigned: the logging
\* that follows may throw (plan.steps of a null plan, step.id of a null step)
\* without changing what is returned.
RunPlanningPhase(recall, planner) ==
    IF recall.threw \/ planner.threw THEN [threw |-> FALSE, plan |-> NoPlan]
    ELSE IF CreatePlan(planner.content).threw
    THEN [threw |-> FALSE, plan |-> NoPlan]
    ELSE [threw |-> FALSE, plan |-> CreatePlan(planner.content).plan]

-----------------------------------------------------------------------------
\* Memoryer.retrieve (memoryer.ts): the selector model call picks ids out of
\* the summaries, then the full content of every picked id is read, one id
\* at a time.  The text it returns is one of four fixed texts, named by tag,
\* or the header followed by the content blocks (tag "contents").

MaxSummaries == 2    \* summaries handed to one retrieve() call

\* A summary: its id and the memory it came from.
SummaryAlphabet ==
    { [id |-> "m1", source |-> "long_term"],
      [id |-> "m2", source |-> "short_term"],
      [id |-> "m2", source |-> "long_term"] }

SummaryLists == UNION { [1..n -> SummaryAlphabet] : n \in 0..MaxSummaries }

NoRetrieval ==
    [pc |-> "idle", summaries |-> <<>>, shortTermReader |-> FALSE,
     targetIds |-> <<>>, idx |-> 0, reads |-> <<>>, contents |-> <<>>,
     text |-> Null]

\* What the selector call may answer: a rejection, no content, a text that
\* is not JSON, JSON without an ids array, or ids: none, one, two, one
\* twice, one that no summary carries, one inside a code fence.
SelectorTexts ==
    { Null, "", "{bad", "null", "{}", "{ids:x}", "{ids:[]}", "{ids:[m1]}",
      "{ids:[m1,m2]}", "{ids:[m1,m1]}", "{ids:[m3]}", "<fence>{ids:[m2]}<fence>" }

SelectorReplies ==
    { [threw |-> TRUE, content |-> Null] } \cup
    { [threw |-> FALSE, content |-> c] : c \in SelectorTexts }

\* content.match(fence)[1] || content
Unfence(content) ==
    IF content = "<fence>{ids:[m2]}<fence>" THEN "{ids:[m2]}" ELSE content

\* The try block of the selection: threw when llm.chat rejects or the
\* reply is not JSON; ids is parsed.ids when that is an array, else [].
SelectIds(reply) ==
    IF reply.threw
    THEN [threw |-> TRUE, ids |-> <<>>]
    ELSE LET content == IF reply.content \in {Null, ""} THEN "{}"
                        ELSE reply.content
             parsed  == JSONparse(Unfence(content))
         IN  IF ~parsed.ok
             THEN [threw |-> TRUE, ids |-> <<>>]
             ELSE IF /\ ~parsed.isNull
                     /\ "ids" \in DOMAIN parsed.obj
                     /\ parsed.obj.ids.array
             THEN [threw |-> FALSE, ids |-> parsed.obj.ids.items]
             ELSE [threw |-> FALSE, ids |-> <<>>]

\* What reading one memory may do: reject, answer nothing (null from the
\* short-term reader, a result without content from the provider), or
\* answer a text, possibly empty.
ReadOutcomes ==
    { [threw |-> TRUE,  text |-> Null],
      [threw |-> FALSE, text |-> Null],
      [threw |-> FALSE, text |-> ""],
      [threw |-> FALSE, text |-> "c"] }

\* summaries.find(s => s.id === id) is a short-term summary.
IsShortTerm(summaries, id) ==
    /\ \E i \in 1..Len(summaries) : summaries[i].id = id
    /\ LET first == CHOOSE i \in 1..Len(summaries) :
                        /\ summaries[i].id = id
                        /\ \A j \in 1..(i - 1) : summaries[j].id # id
       IN  summaries[first].source = "short_term"

\* A variant of ReadMemory that, for a short-term summary, also pushes the
\* block of the long-term memory of the same id.
ReadMemory_both(summaries, id, shortTermReader, outcome) ==
    IF outcome.threw \/ outcome.text = Null
    THEN <<>>
    ELSE IF IsShortTerm(summaries, id) /\ shortTermReader
    THEN <<[id |-> id, source |-> "short_term", text |-> outcome.text],
           [id |-> id, source |-> "long_term", text |-> outcome.text]>>
    ELSE <<[id |-> id, source |-> "long_term", text |-> outcome.text]>>

\* The body of the loop over targetIds: the blocks pushed for one id.  A
\* rejection, or a result the text cannot be taken from, is caught and
\* logged; an empty short-term content is skipped with a warning.
ReadMemory(summaries, id, shortTermReader, outcome) ==
    IF IsShortTerm(summaries, id) /\ shortTermReader
    THEN IF outcome.threw \/ outcome.text \in {Null, ""}
         THEN <<>>
         ELSE <<[id |-> id, source |-> "short_term", text |-> outcome.text]>>
    ELSE IF outcome.threw \/ outcome.text = Null
         THEN <<>>
         ELSE <<[id |-> id, source |-> "long_term", text |-> outcome.text]>>

\* retrieve() up to its first await, or to its return when there is no
\* summary.
RetrieveStart(summaries, shortTermReader) ==
    IF Len(summaries) = 0
    THEN [NoRetrieval EXCEPT !.pc = "done", !.text = "no_summaries"]
    ELSE [NoRetrieval EXCEPT !.pc = "select", !.summaries = summaries,
                             !.shortTermReader = shortTermReader]

\* The selector call settled: return on a failure or an empty selection,
\* else start reading the first id.
Selected(r, reply) ==
    LET sel == SelectIds(reply)
    IN  IF sel.threw
        THEN [r EXCEPT !.pc = "done", !.text = "analysis_failed"]
        ELSE IF Len(sel.ids) = 0
        THEN [r EXCEPT !.pc = "done", !.text = "none_selected"]
        ELSE [r EXCEPT !.pc = "read", !.targetIds = sel.ids, !.idx = 1]

\* The read of targetIds[idx] settled: push its block if there is one, go
\* on with the next id, and after the last id return the blocks, or the
\* failure text when there is none.
Hydrated(r, outcome) ==
    LET blocks   == ReadMemory(r.summaries, r.targetIds[r.idx],
                               r.shortTermReader, outcome)
        contents == r.contents \o blocks
        last     == r.idx = Len(r.targetIds)
    IN  [r EXCEPT !.contents = contents,
                  !.reads = Append(@, outcome),
                  !.idx = @ + 1,
                  !.pc = IF last THEN "done" ELSE "read",
                  !.text = IF ~last THEN Null
                           ELSE IF Len(contents) = 0 THEN "read_failed"
                           ELSE "contents"]

-----------------------------------------------------------------------------
\* Messages, tool calls and the replies of the model (agent.ts).

BuiltInTools == {"manage_scratchpad", "update_running_summary"}

\* A variant of toolMap in which every requested name finds a provider.
toolMap_neverMisses ==
    {"execute_code", "read_file", "search_memories", "read_memory", "ghost_tool"}

\* Agent.toolMap after initialize(): the tools the providers registered.
toolMap == {"execute_code", "read_file", "search_memories", "read_memory"}

\* The content of a tool message is one of the fixed texts of executeTools,
\* named by tag, completed by the variable part text.  Every message of the
\* turn loop carries the turn in which it was created (0 before the loop),
\* which tells the message objects of different turns apart.
ErrorTags == {"invalid_json", "scratchpad_error", "summary_error",
              "not_found", "exec_error"}

ToolMsg(id, tag, text) ==
    [role |-> "tool", turn |-> turnCount, tool_call_id |-> id, tag |-> tag,
     text |-> text, has_tool_calls |-> FALSE, tool_calls |-> <<>>]

AssistantMsg(response) ==
    [role |-> "assistant", turn |-> turnCount, tool_call_id |-> 0,
     tag |-> "reply",
     text |-> response.content, has_tool_calls |-> response.has_tool_calls,
     tool_calls |-> response.tool_calls]

IsErrorResult(m) == m.role = "tool" /\ m.tag \in ErrorTags

\* (name, arguments) pairs the model may request.
CallAlphabet ==
    { <<"read_file", "{path:p}">>,
      <<"read_file", "{bad">>,
      <<"ghost_tool", "{}">>,
      <<"execute_code", "null">>,
      <<"manage_scratchpad", "{action:update,key:k,value:v}">>,
      <<"manage_scratchpad", "{action:update,key:k}">>,
      <<"manage_scratchpad", "{action:delete,key:k}">>,
      <<"update_running_summary", "{doing:d,next:n}">>,
      <<"update_running_summary", "{done:x,doing:d,next:n}">> }

Contents == {Null, "", "x"}

CallSeqs == UNION { [1..n -> CallAlphabet] : n \in 0..MaxCalls }

MkCalls(cs) ==
    [k \in 1..Len(cs) |-> [id |-> k, name |-> cs[k][1], arguments |-> cs[k][2]]]

\* response.choices[0].message: content may be null, tool_calls may be absent.
RichReplies ==
    { [content |-> c, has_tool_calls |-> TRUE, tool_calls |-> MkCalls(cs)] :
          c \in Contents, cs \in CallSeqs }
    \cup
    { [content |-> c, has_tool_calls |-> FALSE, tool_calls |-> <<>>] :
          c \in Contents }

\* The replies explored in the later turns: a final answer, or one call of a
\* registered provider tool with well-formed arguments.
PlainReplies ==
    { r \in RichReplies :
          /\ Len(r.tool_calls) <= 1
          /\ \A k \in 1..Len(r.tool_calls) :
                 /\ r.tool_calls[k].name = "read_file"
                 /\ r.tool_calls[k].arguments = "{path:p}" }

Replies(turn) == IF turn <= RichTurns THEN RichReplies ELSE PlainReplies

UserInputs == {"u"}

\* What callTool may do: throw, or return content whose text is "" or "out".
ProviderOutcomes ==
    { [settled |-> TRUE, threw |-> TRUE,  text |-> "boom"],
      [settled |-> TRUE, threw |-> FALSE, text |-> ""],
      [settled |-> TRUE, threw |-> FALSE, text |-> "out"] }

\* A callTool invocation that has not settled yet.
ProviderPending == [settled |-> FALSE, threw |-> FALSE, text |-> Null]

\* The reply whose tool calls executeTools is working on.
Response == lastTurnMessages[1]

\* A variant of WantsTools that only tests that tool_calls is present.
WantsTools_ignoresLength(m) == m.has_tool_calls

\* response.tool_calls && response.tool_calls.length > 0
WantsTools(m) == m.has_tool_calls /\ Len(m.tool_calls) > 0

\* A tool call is resolvable when its name is a built-in or registered tool
\* and its arguments are JSON.
Resolvable(call) ==
    /\ call.name \in BuiltInTools \cup toolMap
    /\ JSONparse(call.arguments).ok

HasResolvableCall(m) ==
    /\ WantsTools(m)
    /\ \E k \in 1..Len(m.tool_calls) : Resolvable(m.tool_calls[k])

-----------------------------------------------------------------------------
\* Memory Stream: the MemoryManager the agent calls (summarizeUserMessage,
\* summarizeAssistantReply, summarizeToolOutput, retrieveContext).  A unit
\* keeps the fields the agent passes: taskId, turnId, role and, for what the
\* unit condenses, the turn of the loop and the tool call it belongs to.

MemoryUnit(taskId, tid, role, turn, call) ==
    [taskId |-> taskId, turnId |-> tid, role |-> role, turn |-> turn,
     call |-> call]

\* Whether a summarization started now may still succeed: every summarize*
\* call is best effort and its model call may fail, which it does here once
\* the stream holds MaxStream units or the rich turns are over.
CanRecord == Len(stream) < MaxStream /\ turnCount <= RichTurns

\* The outcomes of a summarization started now: TRUE when its unit is
\* recorded.
Recordings == IF CanRecord THEN BOOLEAN ELSE {FALSE}

\* retrieveContext: throws, or renders the units the selector chose among
\* those of the task (none chosen: the empty string).  A selector reply of
\* the wrong shape and a failed selector call are failures that give the
\* empty string; the agent also provides for a failure that is raised.
RecallOutcomes(taskId) ==
    { [threw |-> TRUE,  failure |-> "call_failed", units |-> {}],
      [threw |-> FALSE, failure |-> "bad_shape", units |-> {}],
      [threw |-> FALSE, failure |-> "call_failed", units |-> {}],
      [threw |-> FALSE, failure |-> "none", units |-> {}] }
    \cup
    { [threw |-> FALSE, failure |-> "none", units |-> {stream[i]}] :
          i \in { j \in 1..Len(stream) : stream[j].taskId = taskId } }

-----------------------------------------------------------------------------
\* Agent.buildContextForTurn: [threw, messages].  The prompt is modelled by
\* its parts: the progress panel (present iff the plan has steps), the recall
\* message (present iff retrieval returned text), the anchor and the raw
\* messages of the previous turn.

TaskTitle(ts, id) ==
    IF HasTask(ts, id) THEN (CHOOSE t \in {ts[i] : i \in 1..Len(ts)} : t.id = id).title
    ELSE Null

NoMessages ==
    [panel |-> FALSE, title |-> Null, steps |-> <<>>, summary |-> <<>>,
     scratch |-> <<>>, recall |-> {}, recallFailure |-> "none",
     anchor |-> Null, prev |-> <<>>]

\* A variant of BuildContextForTurn that appends the whole history.
BuildContextForTurn_transcript(recall) ==
    LET panel  == PlanHasSteps(plan)
        status == RunningSummaryRender(runningSummary, chatTaskId)
    IN  [threw |-> panel /\ status.threw,
         messages |->
            [panel   |-> panel,
             title   |-> IF panel THEN TaskTitle(tasks, chatTaskId) ELSE Null,
             steps   |-> IF panel THEN plan.obj.steps ELSE <<>>,
             summary |-> IF panel THEN status.text ELSE <<>>,
             scratch |-> IF panel THEN ScratchpadRender(scratchpad, chatTaskId)
                         ELSE <<>>,
             recall  |-> IF recall.threw THEN {} ELSE recall.units,
             recallFailure |-> recall.failure,
             anchor  |-> userInput,
             prev    |-> executionHistory]]

\* A variant of BuildContextForTurn without the try/catch around
\* retrieveContext.
BuildContextForTurn_uncaught(recall) ==
    LET panel  == PlanHasSteps(plan)
        status == RunningSummaryRender(runningSummary, chatTaskId)
    IN  [threw |-> (panel /\ status.threw) \/ recall.threw,
         messages |->
            [panel   |-> panel,
             title   |-> IF panel THEN TaskTitle(tasks, chatTaskId) ELSE Null,
             steps   |-> IF panel THEN plan.obj.steps ELSE <<>>,
             summary |-> IF panel THEN status.text ELSE <<>>,
             scratch |-> IF panel THEN ScratchpadRender(scratchpad, chatTaskId)
                         ELSE <<>>,
             recall  |-> recall.units,
             recallFailure |-> recall.failure,
             anchor  |-> userInput,
             prev    |-> lastTurnMessages]]

BuildContextForTurn(recall) ==
    LET panel  == PlanHasSteps(plan)
        status == RunningSummaryRender(runningSummary, chatTaskId)
    IN  [threw |-> panel /\ status.threw,
         messages |->
            [panel   |-> panel,
             title   |-> IF panel THEN TaskTitle(tasks, chatTaskId) ELSE Null,
             steps   |-> IF panel THEN plan.obj.steps ELSE <<>>,
             summary |-> IF panel THEN status.text ELSE <<>>,
             scratch |-> IF panel THEN ScratchpadRender(scratchpad, chatTaskId)
                         ELSE <<>>,
             recall  |-> IF recall.threw THEN {} ELSE recall.units,
             recallFailure |-> recall.failure,
             anchor  |-> userInput,
             prev    |-> lastTurnMessages]]

-----------------------------------------------------------------------------
\* The state after construction of the Agent.

\* What chat() rejects with: the error of llm.chat, or a TypeError raised
\* outside every try block.
Errors == {"LLMError", "TypeError"}

\* No call was made directly on a store yet.
NoOp(sp, rs) ==
    [kind |-> "none", taskId |-> 0, key |-> Null, value |-> Null,
     args |-> NoSummary, threw |-> FALSE, text |-> <<>>,
     scratchpad |-> sp, runningSummary |-> rs]

NoFocus == [input |-> Null, digest |-> <<>>]

NoPlanning == [recall |-> FALSE, planner |-> FALSE, content |-> Null]

\* new Agent(...): no chat() was called yet.
InitAgent ==
    /\ pc = "idle"
    /\ turnId = 0
    /\ chatTaskId = 0
    /\ userInput = Null
    /\ planning = NoPlanning
    /\ plan = NoPlan
    /\ turnCount = 0
    /\ finalAnswer = ""
    /\ lastTurnMessages = <<>>
    /\ executionHistory = <<>>
    /\ focusQuery = NoFocus
    /\ messagesForTurn = NoMessages
    /\ toolIdx = 0
    /\ toolSummaries = <<>>
    /\ stream = <<>>
    /\ pendingSummaries = {}
    /\ modelCalls = 0
    /\ inFlight = "none"
    /\ invoked = <<>>
    /\ resolvable = TRUE
    /\ result = "none"
    /\ now = 0
    /\ retrieval = NoRetrieval

Init ==
    /\ InitAgent
    /\ tasks = <<>>
    /\ currentTaskId = 0
    /\ scratchpad = [t \in TaskIds |-> <<>>]
    /\ runningSummary = [t \in TaskIds |-> NoSummary]
    /\ storeOp = NoOp(scratchpad, runningSummary)

storeVars == <<scratchpad, runningSummary>>
taskVars  == <<tasks, currentTaskId>>
loopVars  == <<turnCount, finalAnswer, lastTurnMessages, executionHistory,
               focusQuery, messagesForTurn, toolIdx, toolSummaries>>

-----------------------------------------------------------------------------
\* Agent.chat, one action per stretch of code between two awaits.

\* chat() up to the first await: turnId += 1, getCurrentTaskId (creating the
\* default task when there is no current task).
ChatStart(input) ==
    /\ pc \in {"idle", "returned", "thrown"}
    /\ turnId' = turnId + 1
    /\ userInput' = input
    /\ IF currentTaskId = 0
       THEN \E id \in TaskIds :
              /\ ~HasTask(tasks, id)
              /\ tasks' = CreateTask(tasks, "Default Task", id, now).tasks
              /\ currentTaskId' = id
              /\ chatTaskId' = id
       ELSE /\ chatTaskId' = currentTaskId
            /\ UNCHANGED taskVars
    /\ pc' = "planning"
    /\ result' = "running"
    /\ planning' = NoPlanning
    /\ plan' = NoPlan
    /\ resolvable' = TRUE
    /\ turnCount' = 0
    /\ finalAnswer' = ""
    /\ lastTurnMessages' = <<>>
    /\ executionHistory' = <<>>
    /\ focusQuery' = NoFocus
    /\ messagesForTurn' = NoMessages
    /\ toolIdx' = 0
    /\ toolSummaries' = <<>>
    /\ modelCalls' = 0
    /\ invoked' = <<>>
    /\ UNCHANGED <<storeVars, stream, pendingSummaries, inFlight, now, storeOp, retrieval>>

\* A variant of Planning that records the user message while it plans.
Planning_recordsInput(recall, planner) ==
    /\ pc = "planning"
    /\ LET r == RunPlanningPhase(recall, planner)
           p == r.plan
       IN  IF r.threw
           THEN /\ pc' = "thrown"
                /\ result' = "TypeError"
                /\ UNCHANGED <<plan, tasks>>
           ELSE /\ plan' = p
                /\ tasks' = IF ~p.isNull /\ ~Falsy(Field(p.obj, "taskTitle"))
                            THEN UpdateTaskTitle(tasks, chatTaskId,
                                                 p.obj.taskTitle)
                            ELSE tasks
                /\ pc' = "record"
                /\ UNCHANGED result
    /\ stream' = Append(stream, MemoryUnit(chatTaskId, turnId, "user", 0, 0))
    /\ planning' = [recall |-> recall.threw, planner |-> planner.threw,
                    content |-> planner.content]
    /\ UNCHANGED <<turnId, currentTaskId, chatTaskId, userInput, loopVars,
                   storeVars, pendingSummaries, modelCalls, inFlight,
                   invoked, resolvable, now, storeOp, retrieval>>

\* await runPlanningPhase, which chat() does not guard, and the retitle that
\* follows it.
Planning(recall, planner) ==
    /\ pc = "planning"
    /\ LET r == RunPlanningPhase(recall, planner)
           p == r.plan
       IN  IF r.threw
           THEN /\ pc' = "thrown"
                /\ result' = "TypeError"
                /\ UNCHANGED <<plan, tasks>>
           ELSE /\ plan' = p
                /\ tasks' = IF ~p.isNull /\ ~Falsy(Field(p.obj, "taskTitle"))
                            THEN UpdateTaskTitle(tasks, chatTaskId,
                                                 p.obj.taskTitle)
                            ELSE tasks
                /\ pc' = "record"
                /\ UNCHANGED result
    /\ planning' = [recall |-> recall.threw, planner |-> planner.threw,
                    content |-> planner.content]
    /\ UNCHANGED <<turnId, currentTaskId, chatTaskId, userInput, loopVars,
                   storeVars, stream, pendingSummaries, modelCalls, inFlight,
                   invoked, resolvable, now, storeOp, retrieval>>

SystemMsg(tag) ==
    [role |-> "system", turn |-> 0, tool_call_id |-> 0, tag |-> tag,
     text |-> "",
     has_tool_calls |-> FALSE, tool_calls |-> <<>>]

UserMsg(text) ==
    [role |-> "user", turn |-> 0, tool_call_id |-> 0, tag |-> "user",
     text |-> text,
     has_tool_calls |-> FALSE, tool_calls |-> <<>>]

\* A variant of RecordUser that appends the unit of the user message twice.
RecordUser_twice(recorded) ==
    /\ pc = "record"
    /\ stream' = IF recorded
                 THEN stream \o <<MemoryUnit(chatTaskId, turnId, "user", 0, 0),
                                  MemoryUnit(chatTaskId, turnId, "user", 0, 0)>>
                 ELSE stream
    /\ executionHistory' =
          <<SystemMsg("system")>>
          \o (IF PlanHasSteps(plan) THEN <<SystemMsg("plan")>> ELSE <<>>)
          \o <<UserMsg(userInput)>>
    /\ finalAnswer' = ""
    /\ turnCount' = 0
    /\ lastTurnMessages' = <<>>
    /\ focusQuery' = [input |-> userInput, digest |-> <<>>]
    /\ planning' = NoPlanning
    /\ pc' = "turn"
    /\ UNCHANGED <<turnId, taskVars, chatTaskId, userInput, plan,
                   messagesForTurn, toolIdx, toolSummaries, storeVars,
                   pendingSummaries, modelCalls, inFlight, invoked, resolvable,
                   result, now, storeOp, retrieval>>

\* summarizeUserMessage (best effort: recorded = FALSE when it fails) and the
\* set-up of the turn loop.
RecordUser(recorded) ==
    /\ pc = "record"
    /\ stream' = IF recorded
                 THEN Append(stream, MemoryUnit(chatTaskId, turnId, "user", 0, 0))
                 ELSE stream
    /\ executionHistory' =
          <<SystemMsg("system")>>
          \o (IF PlanHasSteps(plan) THEN <<SystemMsg("plan")>> ELSE <<>>)
          \o <<UserMsg(userInput)>>
    /\ finalAnswer' = ""
    /\ turnCount' = 0
    /\ lastTurnMessages' = <<>>
    /\ focusQuery' = [input |-> userInput, digest |-> <<>>]
    /\ planning' = NoPlanning
    /\ pc' = "turn"
    /\ UNCHANGED <<turnId, taskVars, chatTaskId, userInput, plan,
                   messagesForTurn, toolIdx, toolSummaries, storeVars,
                   pendingSummaries, modelCalls, inFlight, invoked, resolvable,
                   result, now, storeOp, retrieval>>

\* while (turnCount < MAX_TURNS)
LoopCondition == turnCount < MAX_TURNS

\* Head of the while loop: turnCount++, buildContextForTurn (whose status
\* render may throw) and llm.chat issued.
TurnStart(recall) ==
    /\ pc = "turn"
    /\ LoopCondition
    /\ turnCount' = turnCount + 1
    /\ LET built == BuildContextForTurn(recall)
       IN  IF built.threw
           THEN /\ pc' = "thrown"
                /\ result' = "TypeError"
                /\ UNCHANGED <<messagesForTurn, modelCalls, inFlight>>
           ELSE /\ messagesForTurn' = built.messages
                /\ modelCalls' = modelCalls + 1
                /\ inFlight' = "model"
                /\ pc' = "model"
                /\ UNCHANGED result
    /\ UNCHANGED <<turnId, taskVars, chatTaskId, userInput, planning, plan,
                   finalAnswer, lastTurnMessages, executionHistory, focusQuery,
                   toolIdx, toolSummaries, storeVars, stream, pendingSummaries,
                   invoked, resolvable, now, storeOp, retrieval>>

\* A variant of LoopExit that returns the text of the last assistant reply.
LoopExit_returnsLastText ==
    /\ pc = "turn"
    /\ ~LoopCondition
    /\ pc' = "returned"
    /\ result' = "returned"
    /\ finalAnswer' = IF Falsy(Response.text) THEN "" ELSE Response.text
    /\ UNCHANGED <<turnId, taskVars, chatTaskId, userInput, planning, plan,
                   turnCount, lastTurnMessages, executionHistory, focusQuery,
                   messagesForTurn, toolIdx, toolSummaries, storeVars, stream,
                   pendingSummaries, modelCalls, inFlight, invoked, resolvable,
                   now, storeOp, retrieval>>

\* The loop condition is false: return finalAnswer.
LoopExit ==
    /\ pc = "turn"
    /\ ~LoopCondition
    /\ pc' = "returned"
    /\ result' = "returned"
    /\ UNCHANGED <<turnId, taskVars, chatTaskId, userInput, planning, plan,
                   loopVars, storeVars, stream, pendingSummaries, modelCalls,
                   inFlight, invoked, resolvable, now, storeOp, retrieval>>

\* llm.chat resolves with response: summarizeAssistantReply (best effort),
\* the pushes, and either the start of executeTools or the final answer.
ModelReply(response, recorded) ==
    /\ pc = "model"
    /\ Cardinality(pendingSummaries) + Len(response.tool_calls) <= MaxPending
    /\ recorded => ~Falsy(response.content)
    /\ stream' = IF recorded
                 THEN Append(stream, MemoryUnit(chatTaskId, turnId, "assistant",
                                                turnCount, 0))
                 ELSE stream
    /\ lastTurnMessages' = <<AssistantMsg(response)>>
    /\ executionHistory' = <<AssistantMsg(response)>>
    /\ messagesForTurn' = NoMessages
    /\ inFlight' = "none"
    /\ IF WantsTools(response)
       THEN /\ pc' = "exec"
            /\ toolIdx' = 1
            /\ toolSummaries' = <<>>
            /\ UNCHANGED <<finalAnswer, result>>
       ELSE /\ finalAnswer' = IF Falsy(response.content) THEN ""
                              ELSE response.content
            /\ pc' = "returned"
            /\ result' = "returned"
            /\ UNCHANGED <<toolIdx, toolSummaries>>
    /\ invoked' = [k \in 1..Len(response.tool_calls) |-> <<>>]
    /\ resolvable' = (resolvable /\ HasResolvableCall(response))
    /\ UNCHANGED <<turnId, taskVars, chatTaskId, userInput, planning, plan,
                   turnCount, focusQuery, storeVars, pendingSummaries,
                   modelCalls, now, storeOp, retrieval>>

\* A variant of ModelThrow in which the failed model call is issued again.
ModelThrow_retries ==
    /\ pc = "model"
    /\ modelCalls < MAX_TURNS
    /\ modelCalls' = modelCalls + 1
    /\ UNCHANGED <<pc, turnId, taskVars, chatTaskId, userInput, planning, plan,
                   loopVars, storeVars, stream, pendingSummaries, inFlight,
                   invoked, resolvable, result, now, storeOp, retrieval>>

\* llm.chat rejects: nothing in chat() catches it.
ModelThrow ==
    /\ pc = "model"
    /\ pc' = "thrown"
    /\ result' = "LLMError"
    /\ inFlight' = "none"
    /\ UNCHANGED <<turnId, taskVars, chatTaskId, userInput, planning, plan,
                   loopVars, storeVars, stream, pendingSummaries, modelCalls,
                   invoked, resolvable, now, storeOp, retrieval>>

-----------------------------------------------------------------------------
\* Agent.executeTools: one iteration of the for..of loop per action, a
\* provider call being split at its await.

\* A variant of CurrentCall that walks the tool calls from the last one.
CurrentCall_reversed ==
    Response.tool_calls[Len(Response.tool_calls) + 1 - toolIdx]

CurrentCall == Response.tool_calls[toolIdx]

\* executionHistory.push(m); lastTurnMessages.push(m)
PushResult(m) ==
    /\ executionHistory' = Append(executionHistory, m)
    /\ lastTurnMessages' = Append(lastTurnMessages, m)

\* toolSummaries.push of the digest line of the current call.
Digest(call) == [turn |-> turnCount, call |-> call.id]

\* A variant of Summarization that hands over the turn of the loop in the
\* place of the turnId of the chat.
Summarization_byTurnCount(call) ==
    [taskId |-> chatTaskId, turnId |-> turnCount, turn |-> turnCount,
     call |-> call.id]

\* The summarizeToolOutput promise a built-in branch starts and never awaits.
Summarization(call) ==
    [taskId |-> chatTaskId, turnId |-> turnId, turn |-> turnCount,
     call |-> call.id]

\* A variant of BuiltInOutcome that summarizes the tool message also when
\* the built-in tool threw.
BuiltInOutcome_alwaysSummarized(call, args) ==
    IF call.name = "manage_scratchpad"
    THEN LET h == ScratchpadHandleToolCall(scratchpad, chatTaskId, args, now)
         IN  [msg |-> ToolMsg(call.id, IF h.threw THEN "scratchpad_error"
                                       ELSE "output", h.text),
              scratchpad |-> h.store, runningSummary |-> runningSummary,
              summarized |-> TRUE]
    ELSE LET h == RunningSummaryHandleToolCall(runningSummary, chatTaskId,
                                               args, now)
         IN  [msg |-> ToolMsg(call.id, IF h.threw THEN "summary_error"
                                       ELSE "output", h.text),
              scratchpad |-> scratchpad, runningSummary |-> h.store,
              summarized |-> TRUE]

\* The synchronous outcome of one iteration for a call that needs no
\* provider: the tool message, the stores, and whether a summary is made.
BuiltInOutcome(call, args) ==
    IF call.name = "manage_scratchpad"
    THEN LET h == ScratchpadHandleToolCall(scratchpad, chatTaskId, args, now)
         IN  [msg |-> ToolMsg(call.id, IF h.threw THEN "scratchpad_error"
                                       ELSE "output", h.text),
              scratchpad |-> h.store, runningSummary |-> runningSummary,
              summarized |-> ~h.threw]
    ELSE LET h == RunningSummaryHandleToolCall(runningSummary, chatTaskId,
                                               args, now)
         IN  [msg |-> ToolMsg(call.id, IF h.threw THEN "summary_error"
                                       ELSE "output", h.text),
              scratchpad |-> scratchpad, runningSummary |-> h.store,
              summarized |-> ~h.threw]

ExecuteTool ==
    /\ pc = "exec"
    /\ toolIdx <= Len(Response.tool_calls)
    /\ LET call == CurrentCall
           args == JSONparse(call.arguments)
       IN  IF ~args.ok
           THEN \* JSON.parse threw: error result, continue
                /\ PushResult(ToolMsg(call.id, "invalid_json", ""))
                /\ toolIdx' = toolIdx + 1
                /\ UNCHANGED <<pc, result, toolSummaries, storeVars,
                               pendingSummaries, inFlight, invoked>>
           ELSE IF call.name = "execute_code" /\ args.isNull
           THEN \* args.code on null: a TypeError outside every try
                /\ pc' = "thrown"
                /\ result' = "TypeError"
                /\ UNCHANGED <<executionHistory, lastTurnMessages, toolIdx,
                               toolSummaries, storeVars, pendingSummaries,
                               inFlight, invoked>>
           ELSE IF call.name \in BuiltInTools
           THEN LET o == BuiltInOutcome(call, args)
                IN  /\ PushResult(o.msg)
                    /\ scratchpad' = o.scratchpad
                    /\ runningSummary' = o.runningSummary
                    /\ pendingSummaries' =
                          IF o.summarized
                          THEN pendingSummaries \cup {Summarization(call)}
                          ELSE pendingSummaries
                    /\ toolSummaries' =
                          IF o.summarized
                          THEN Append(toolSummaries, Digest(call))
                          ELSE toolSummaries
                    /\ toolIdx' = toolIdx + 1
                    /\ UNCHANGED <<pc, result, inFlight, invoked>>
           ELSE IF call.name \notin toolMap
           THEN \* no provider registered the name
                /\ PushResult(ToolMsg(call.id, "not_found", call.name))
                /\ toolIdx' = toolIdx + 1
                /\ UNCHANGED <<pc, result, toolSummaries, storeVars,
                               pendingSummaries, inFlight, invoked>>
           ELSE \* await mcp.callTool(toolName, args)
                /\ invoked' = [invoked EXCEPT ![toolIdx] = Append(@, ProviderPending)]
                /\ inFlight' = "tool"
                /\ pc' = "tool"
                /\ UNCHANGED <<result, executionHistory, lastTurnMessages,
                               toolIdx, toolSummaries, storeVars,
                               pendingSummaries>>
    /\ UNCHANGED <<turnId, taskVars, chatTaskId, userInput, planning, plan,
                   turnCount, finalAnswer, focusQuery, messagesForTurn, stream,
                   modelCalls, resolvable, now, storeOp, retrieval>>

\* A variant of ProviderResultMsg that reports a rejection as an output.
ProviderResultMsg_hidesError(call, outcome) ==
    ToolMsg(call.id, "output",
            IF outcome.threw \/ outcome.text = "" THEN "(no text output)"
            ELSE outcome.text)

\* The tool message of a provider call: the catch block for a rejection,
\* else contentText || "(工具执行成功，无文本输出)".
ProviderResultMsg(call, outcome) ==
    IF outcome.threw
    THEN ToolMsg(call.id, "exec_error", outcome.text)
    ELSE ToolMsg(call.id, "output",
                 IF outcome.text = "" THEN "(no text output)" ELSE outcome.text)

\* callTool settles: a rejection becomes an error result; a result is
\* summarized (awaited, best effort) and pushed.  The result of
\* search_memories takes the branch of SearchReturn.
ToolReturn(outcome, recorded) ==
    /\ pc = "tool"
    /\ CurrentCall.name # "search_memories"
    /\ recorded => ~outcome.threw
    /\ invoked' = [invoked EXCEPT ![toolIdx] =
                      [@ EXCEPT ![Len(@)] = outcome]]
    /\ LET call == CurrentCall
       IN  /\ PushResult(ProviderResultMsg(call, outcome))
           /\ stream' = IF recorded
                        THEN Append(stream, MemoryUnit(chatTaskId, turnId,
                                                "tool", turnCount, call.id))
                        ELSE stream
           /\ toolSummaries' = IF recorded
                               THEN Append(toolSummaries, Digest(call))
                               ELSE toolSummaries
    /\ toolIdx' = toolIdx + 1
    /\ inFlight' = "none"
    /\ pc' = "exec"
    /\ UNCHANGED <<turnId, taskVars, chatTaskId, userInput, planning, plan,
                   turnCount, finalAnswer, focusQuery, messagesForTurn,
                   storeVars, pendingSummaries, modelCalls, resolvable, result,
                   now, storeOp, retrieval>>

\* A variant of ExecuteToolsReturn that leaves the focus query alone.
ExecuteToolsReturn_keepsFocus ==
    /\ pc = "exec"
    /\ toolIdx > Len(Response.tool_calls)
    /\ pc' = "turn"
    /\ UNCHANGED <<turnId, taskVars, chatTaskId, userInput, planning, plan,
                   loopVars, storeVars, stream, pendingSummaries, modelCalls,
                   inFlight, invoked, resolvable, result, now, storeOp, retrieval>>

\* executeTools returns toolSummaries; chat() re-seeds the focus query.
ExecuteToolsReturn ==
    /\ pc = "exec"
    /\ toolIdx > Len(Response.tool_calls)
    /\ focusQuery' = IF Len(toolSummaries) > 0
                     THEN [input |-> userInput, digest |-> toolSummaries]
                     ELSE focusQuery
    /\ pc' = "turn"
    /\ UNCHANGED <<turnId, taskVars, chatTaskId, userInput, planning, plan,
                   turnCount, finalAnswer, lastTurnMessages, executionHistory,
                   messagesForTurn, toolIdx, toolSummaries, storeVars, stream,
                   pendingSummaries, modelCalls, inFlight, invoked, resolvable,
                   result, now, storeOp, retrieval>>

\* An un-awaited summarizeToolOutput settles while chat() is suspended (or
\* over): the unit is appended, or the rejection is logged.
Suspended == {"idle", "planning", "record", "model", "tool", "returned", "thrown"}

SummarySettled(p, recorded) ==
    /\ pc \in Suspended
    /\ p \in pendingSummaries
    /\ pendingSummaries' = pendingSummaries \ {p}
    /\ stream' = IF recorded
                 THEN Append(stream, MemoryUnit(p.taskId, p.turnId, "tool",
                                                p.turn, p.call))
                 ELSE stream
    /\ UNCHANGED <<pc, turnId, taskVars, chatTaskId, userInput, planning, plan,
                   loopVars, storeVars, modelCalls, inFlight, invoked,
                   resolvable, result, now, storeOp, retrieval>>

-----------------------------------------------------------------------------

Next ==
    \/ \E input \in UserInputs : turnId < MaxChats /\ ChatStart(input)
    \/ \E recall \in RecallOutcomes(chatTaskId), planner \in PlannerOutcomes :
          Planning(recall, planner)
    \/ \E recorded \in Recordings : RecordUser(recorded)
    \/ \E recall \in RecallOutcomes(chatTaskId) : TurnStart(recall)
    \/ LoopExit
    \/ \E response \in Replies(turnCount), recorded \in Recordings :
          ModelReply(response, recorded)
    \/ ModelThrow
    \/ ExecuteTool
    \/ \E outcome \in ProviderOutcomes, recorded \in Recordings :
          ToolReturn(outcome, recorded)
    \/ ExecuteToolsReturn
    \/ \E p \in pendingSummaries, recorded \in Recordings :
          SummarySettled(p, recorded)

Spec == Init /\ [][Next]_vars

-----------------------------------------------------------------------------
\* Two chat() calls on one task whose replies use the scratchpad tool: the
\* first reply of a chat is a final answer or up to MaxCalls calls of
\* manage_scratchpad, well-formed or not, every later reply a final answer.
\* No provider is called and the turn cap is out of reach, so ToolReturn
\* and LoopExit are never enabled.

MaxBuiltInChats == 2     \* chat() invocations per behaviour
MaxBuiltInStream == 2    \* MemoryUnits recorded before every further summarization fails

\* The arguments of manage_scratchpad: a write, no key, no value, an action
\* that is neither update nor delete.
ScratchpadArgTexts ==
    { "{action:update,key:k,value:v}",
      "{}",
      "{action:update,key:k}",
      "{action:rename,key:k}" }

ScratchpadCallSeqs ==
    UNION { [1..n -> {"manage_scratchpad"} \X ScratchpadArgTexts] : n \in 1..MaxCalls }

FinalReplies ==
    { [content |-> "x", has_tool_calls |-> FALSE, tool_calls |-> <<>>] }

BuiltInReplies(turn) ==
    IF turn = 1
    THEN FinalReplies \cup
         { [content |-> Null, has_tool_calls |-> TRUE, tool_calls |-> MkCalls(cs)] :
               cs \in ScratchpadCallSeqs }
    ELSE FinalReplies

BuiltInRecordings == IF Len(stream) < MaxBuiltInStream THEN BOOLEAN ELSE {FALSE}

\* Two tasks exist, the second one with a note of its own; the first one is
\* the current task (createTask twice, a chat on the second, switchTask).
InitBuiltIn ==
    /\ InitAgent
    /\ tasks = CreateTask(CreateTask(<<>>, "Default Task", 1, 0).tasks,
                          "Default Task", 2, 0).tasks
    /\ currentTaskId = 1
    /\ scratchpad = [t \in {1, 2} |->
                        IF t = 2 THEN ScratchpadUpdate([u \in {2} |-> <<>>], 2,
                                                       "k", "w", 0)[2]
                        ELSE <<>>]
    /\ runningSummary = [t \in {1, 2} |-> NoSummary]
    /\ storeOp = NoOp(scratchpad, runningSummary)

NextBuiltIn ==
    \/ \E input \in UserInputs : turnId < MaxBuiltInChats /\ ChatStart(input)
    \/ \E recall \in RecallOutcomes(chatTaskId), planner \in PlannerOutcomes :
          Planning(recall, planner)
    \/ \E recorded \in BuiltInRecordings : RecordUser(recorded)
    \/ \E recall \in RecallOutcomes(chatTaskId) : TurnStart(recall)
    \/ \E response \in BuiltInReplies(turnCount), recorded \in BuiltInRecordings :
          ModelReply(response, recorded)
    \/ ModelThrow
    \/ ExecuteTool
    \/ ExecuteToolsReturn
    \/ \E p \in pendingSummaries, recorded \in BuiltInRecordings :
          SummarySettled(p, recorded)

SpecBuiltIn == InitBuiltIn /\ [][NextBuiltIn]_vars

-----------------------------------------------------------------------------
\* Properties of the turn loop of chat().

\* The text chat() returns for a reply: response.content || "".
ReplyText(m) == IF Falsy(m.text) THEN "" ELSE m.text

\* A reply without tool calls: the list is absent or empty.
NoToolCalls(m) == ~m.has_tool_calls \/ Len(m.tool_calls) = 0

\* The step in which llm.chat resolves with a reply.
ReplyArrives == pc = "model" /\ lastTurnMessages' # lastTurnMessages

\* C1: one chat() issues at most 15 model round trips, and a chat() in which
\* every reply carried at least one resolvable tool call ends only by
\* returning, after exactly 15 of them.
C1_TurnCap ==
    /\ modelCalls <= 15
    /\ (pc \in {"returned", "thrown"} /\ resolvable /\ result # "LLMError")
          => (result = "returned" /\ modelCalls = 15)

\* The part of C1 that holds: the number of model round trips of one chat()
\* never exceeds 15.
ModelCallsCapped == modelCalls <= 15 /\ turnCount <= 15

\* C2: the first reply without tool calls (list absent or empty) ends the
\* loop: chat() returns its text, the empty string when it has none, and
\* until the next chat() no model call is issued and no tool is executed.
C2_FinalReply ==
    [][ /\ (ReplyArrives /\ NoToolCalls(lastTurnMessages'[1]))
             => /\ pc' = "returned"
                /\ result' = "returned"
                /\ finalAnswer' = ReplyText(lastTurnMessages'[1])
        /\ (pc = "returned" /\ turnId' = turnId)
             => /\ pc' = "returned"
                /\ finalAnswer' = finalAnswer
                /\ modelCalls' = modelCalls
                /\ inFlight' = "none"
                /\ invoked' = invoked
                /\ lastTurnMessages' = lastTurnMessages
                /\ UNCHANGED storeVars ]_vars

\* A reply whose tool_calls is an empty list has ended a chat() in its second
\* turn with the text of the reply.
C2_Witness ==
    /\ pc = "returned"
    /\ turnCount = 2
    /\ Response.has_tool_calls
    /\ Len(Response.tool_calls) = 0
    /\ finalAnswer = "x"
    /\ modelCalls = 2

\* C3 as stated: when all 15 turns ended with tool calls, chat() returns the
\* text of the last assistant reply.
C3_ReturnsLastReplyText ==
    (pc = "returned" /\ turnCount = 15 /\ ~NoToolCalls(Response))
       => finalAnswer = ReplyText(Response)

\* C3, amended: when all 15 turns ended with tool calls, chat() returns the
\* empty string whatever the text of the last assistant reply, and does not
\* throw.
C3_CapReturnsEmpty ==
    [][ (pc = "turn" /\ turnCount = 15)
          => /\ pc' = "returned"
             /\ result' = "returned"
             /\ finalAnswer' = ""
             /\ modelCalls' = 15 ]_vars

\* The cap was reached with a last reply that had text and tool calls, and
\* chat() returned the empty string.
C3_Witness ==
    /\ pc = "returned"
    /\ turnCount = 15
    /\ ~NoToolCalls(Response)
    /\ Response.text = "x"
    /\ finalAnswer = ""

-----------------------------------------------------------------------------
\* Properties of executeTools.

\* The tool calls of the reply being worked on, and the results recorded for
\* it so far.
Calls == Response.tool_calls

NumResults == Len(lastTurnMessages) - 1

ResultOf(k) == lastTurnMessages[k + 1]

ScratchpadWrites(n) ==
    { k \in 1..n : Calls[k].name = "manage_scratchpad"
                    /\ ResultOf(k).tag = "output" }

\* The calls among the first n that set the Status: update_running_summary
\* calls answered with a success result.
StatusWrites(n) ==
    { k \in 1..n : Calls[k].name = "update_running_summary"
                    /\ ResultOf(k).tag = "output" }

Max(S) == CHOOSE x \in S : \A y \in S : y <= x

\* The effect of the latest successful Scratchpad call is what a reader of
\* the rendering sees.
ScratchpadShows(rendering, n) ==
    ScratchpadWrites(n) # {} =>
        LET text == Calls[Max(ScratchpadWrites(n))].arguments
        IN  /\ text = "{action:update,key:k,value:v}"
                  => \E i \in 1..Len(rendering) : rendering[i] = <<"k", "v">>
            /\ text = "{action:delete,key:k}"
                  => \A i \in 1..Len(rendering) : rendering[i][1] # "k"

\* The fields set by the latest successful Status call are what a reader of
\* the Status sees.
StatusShows(summary, n) ==
    StatusWrites(n) # {} =>
        /\ summary # NoSummary
        /\ summary.doing = "d"
        /\ summary.next = "n"

\* C5: the model call of turn n+1 is issued only when every tool call of
\* turn n has finished and has its result recorded, and every Scratchpad or
\* Status mutation made by a tool call is visible to the later calls of the
\* turn and in the prompt built for turn n+1, whose panel (present when the
\* plan has steps) renders the stores as they are then.
C5_TurnBarrier ==
    /\ (pc \in {"exec", "tool", "turn"} /\ turnCount >= 1)
          => /\ ScratchpadShows(ScratchpadRender(scratchpad, chatTaskId),
                                NumResults)
             /\ StatusShows(runningSummary[chatTaskId], NumResults)
    /\ (pc = "model" /\ turnCount >= 2)
          => /\ messagesForTurn.prev = lastTurnMessages
             /\ NumResults = Len(Calls)
             /\ \A k \in 1..Len(Calls) :
                    /\ ResultOf(k).tool_call_id = Calls[k].id
                    /\ \A j \in 1..Len(invoked[k]) : invoked[k][j].settled
             /\ inFlight = "model"
             /\ messagesForTurn.panel
                   => /\ ScratchpadShows(messagesForTurn.scratch, NumResults)
                      /\ StatusShows(runningSummary[chatTaskId], NumResults)
                      /\ messagesForTurn.summary =
                            RunningSummaryRender(runningSummary,
                                                 chatTaskId).text

\* The model call of the second turn is in flight with a prompt whose panel
\* shows the entry a tool call of the first turn wrote, another call having
\* followed it in that turn.
C5_Witness ==
    /\ pc = "model"
    /\ turnCount = 2
    /\ messagesForTurn.panel
    /\ Len(Calls) = 2
    /\ 1 \in ScratchpadWrites(2)
    /\ messagesForTurn.scratch = << <<"k", "v">> >>

\* The step in which the executor works on a call, its position being k.
WorksOn(k) == pc = "exec" /\ toolIdx = k /\ k <= Len(Calls)

\* The executor answers the call at k with an error result of the given tag,
\* touches nothing else and goes on with the next call.
AnswersWithError(k, tag) ==
    /\ Len(lastTurnMessages') = Len(lastTurnMessages) + 1
    /\ SubSeq(lastTurnMessages', 1, Len(lastTurnMessages)) = lastTurnMessages
    /\ lastTurnMessages'[k + 1].role = "tool"
    /\ lastTurnMessages'[k + 1].tool_call_id = Calls[k].id
    /\ lastTurnMessages'[k + 1].tag = tag
    /\ executionHistory' = Append(executionHistory, lastTurnMessages'[k + 1])
    /\ UNCHANGED <<storeVars, stream, pendingSummaries, toolSummaries,
                   invoked, inFlight>>
    /\ inFlight = "none"
    /\ pc' = "exec"
    /\ toolIdx' = k + 1
    /\ result' = "running"

\* When executeTools has returned, every call of the reply has its result.
AllAnswered == (pc = "turn" /\ turnCount >= 1) => NumResults = Len(Calls)

\* C6: a tool call whose arguments are not JSON gets an error result, for
\* that call only: no store is mutated, no provider is invoked, and the
\* executor goes on with the later calls of the turn.
C6_UnparsableArguments ==
    /\ [](AllAnswered)
    /\ [][ \A k \in 1..MaxCalls + 1 :
             (WorksOn(k) /\ Calls[k].arguments = "{bad")
                => AnswersWithError(k, "invalid_json") ]_vars

\* A call with unparsable arguments was answered with an error and the call
\* after it was carried out at its provider.
C6_Witness ==
    /\ pc = "turn"
    /\ turnCount = 1
    /\ Len(Calls) = 2
    /\ Calls[1].arguments = "{bad"
    /\ ResultOf(1).tag = "invalid_json"
    /\ invoked[1] = <<>>
    /\ ResultOf(2).tag = "output"
    /\ Len(invoked[2]) = 1

C8_ProviderException ==
    /\ [](\A k \in 1..Len(invoked) : \A j \in 1..Len(invoked[k]) :
              (invoked[k][j].settled /\ invoked[k][j].threw)
                 => /\ NumResults >= k
                    /\ ResultOf(k).tool_call_id = Calls[k].id
                    /\ ResultOf(k).tag = "exec_error"
                    /\ IsErrorResult(ResultOf(k))
                    /\ ResultOf(k).text = invoked[k][j].text)
    /\ [][ pc = "tool"
             => /\ result' = "running"
                /\ pc' \in {"tool", "exec"}
                /\ pc' = "exec"
                     => /\ toolIdx' = toolIdx + 1
                        /\ invoked'[toolIdx][1].settled
                        /\ Len(lastTurnMessages') = Len(lastTurnMessages) + 1
                        /\ UNCHANGED storeVars ]_vars

\* The provider of the first call threw, the error result carries its text
\* and the second call was carried out at its provider.
C8_Witness ==
    /\ pc = "turn"
    /\ turnCount = 1
    /\ result = "running"
    /\ Len(Calls) = 2
    /\ invoked[1] = << [settled |-> TRUE, threw |-> TRUE, text |-> "boom"] >>
    /\ ResultOf(1).tag = "exec_error"
    /\ ResultOf(1).text = "boom"
    /\ Len(invoked[2]) = 1
    /\ invoked[2][1].settled

-----------------------------------------------------------------------------
\* Properties of the failures around the turn loop.

\* The planning failures: retrieveContext threw, the model call of the
\* planner threw, or the plan text is not JSON.
PlanningFailed ==
    planning.recall \/ planning.planner \/ planning.content = "garbage"

\* C9: a failure of retrieval, of the planner model call or of the parse of
\* the plan text does not abort chat(): the plan is null, the user message
\* is recorded and the turn loop is entered as for a request without a plan,
\* with no plan message and no panel.
C9_PlanningNeverAborts ==
    /\ []((pc = "record" /\ PlanningFailed)
             => (plan = NoPlan /\ result = "running"))
    /\ []((pc = "model" /\ plan = NoPlan)
             => (~messagesForTurn.panel /\ messagesForTurn.steps = <<>>
                 /\ messagesForTurn.anchor = userInput))
    /\ [][ /\ pc = "planning"
               => (pc' \in {"planning", "record"} /\ result' = "running")
           /\ (pc = "record" /\ plan = NoPlan /\ pc' # pc)
               => /\ pc' = "turn"
                  /\ result' = "running"
                  /\ executionHistory' =
                        <<SystemMsg("system"), UserMsg(userInput)>>
                  /\ turnCount' = 0
                  /\ lastTurnMessages' = <<>>
                  /\ focusQuery' = [input |-> userInput, digest |-> <<>>]
                  /\ plan' = NoPlan ]_vars

\* The plan text was not JSON and chat() is about to record the user
\* message with a null plan.
C9_Witness ==
    /\ pc = "record"
    /\ ~planning.recall
    /\ ~planning.planner
    /\ planning.content = "garbage"
    /\ plan = NoPlan
    /\ result = "running"

\* C10: a failure of the model call of a turn leaves chat() as an
\* exception: the call is not issued again, no further turn is started and
\* no answer is returned.
C10_ModelFailurePropagates ==
    [][ /\ pc = "model"
           => /\ modelCalls' = modelCalls
              /\ turnCount' = turnCount
              /\ (pc' # pc /\ lastTurnMessages' = lastTurnMessages)
                    => /\ pc' = "thrown"
                       /\ result' = "LLMError"
                       /\ finalAnswer' = finalAnswer
                       /\ inFlight' = "none"
        /\ (pc = "thrown" /\ turnId' = turnId)
           => /\ pc' = "thrown"
              /\ result' = result
              /\ modelCalls' = modelCalls
              /\ turnCount' = turnCount
              /\ finalAnswer' = finalAnswer
              /\ lastTurnMessages' = lastTurnMessages
              /\ invoked' = invoked
              /\ inFlight' = "none" ]_vars

\* The model call of the second turn failed and chat() threw its error.
C10_Witness ==
    /\ pc = "thrown"
    /\ result = "LLMError"
    /\ turnCount = 2
    /\ modelCalls = 2
    /\ finalAnswer = ""

-----------------------------------------------------------------------------
\* Properties of the prompt of a turn.

\* The number of messages of a prompt: the system message, the panel, the
\* recall message, the anchor and the raw messages of the previous turn.
MessageCount(m) ==
    1 + (IF m.panel THEN 1 ELSE 0) + (IF m.recall # {} THEN 1 ELSE 0) + 1
      + Len(m.prev)

\* C11: the prompt of turn n holds, of the raw turn messages, exactly those
\* of turn n-1, the assistant reply followed by its tool results, and none
\* of an earlier turn; it has at most 4 + 1 + (tool calls of turn n-1)
\* messages.
C11_PromptRebuilt ==
    pc = "model" =>
        LET prev == messagesForTurn.prev
        IN  /\ prev = lastTurnMessages
            /\ \A i \in 1..Len(prev) : prev[i].turn = turnCount - 1
            /\ turnCount = 1 => prev = <<>>
            /\ turnCount > 1 =>
                  /\ prev[1].role = "assistant"
                  /\ Len(prev) = 1 + Len(prev[1].tool_calls)
                  /\ \A i \in 2..Len(prev) :
                         /\ prev[i].role = "tool"
                         /\ prev[i].tool_call_id = prev[1].tool_calls[i - 1].id
                  /\ MessageCount(messagesForTurn)
                        <= 4 + 1 + Len(prev[1].tool_calls)
            /\ MessageCount(messagesForTurn) <= 4 + Len(prev)

\* The prompt of the third turn carries the reply of the second turn and
\* its one tool result, a panel and a recall message: 6 messages.
C11_Witness ==
    /\ pc = "model"
    /\ turnCount = 3
    /\ Len(messagesForTurn.prev) = 2
    /\ messagesForTurn.prev[1].turn = 2
    /\ messagesForTurn.panel
    /\ messagesForTurn.recall # {}
    /\ MessageCount(messagesForTurn) = 6

\* C12 as stated: the focus query of turn 1 is the user input, and the focus
\* query of every later turn carries a digest of the tool outputs of the
\* turn before it.
C12_DigestOfPreviousTurn ==
    pc = "model" =>
        /\ focusQuery.input = userInput
        /\ turnCount = 1 => focusQuery.digest = <<>>
        /\ turnCount > 1 =>
              /\ focusQuery.digest # <<>>
              /\ \A i \in 1..Len(focusQuery.digest) :
                     focusQuery.digest[i].turn = turnCount - 1

\* C12, amended: the focus query of turn 1 is the user input; after a turn
\* whose tool calls left at least one tool summary the focus query of the
\* next turn is the user input with the digest of exactly those summaries;
\* after a turn that left none (its calls failed or their summarization
\* failed) the focus query stays what it was, the digest of an earlier turn
\* included.
C12_FocusQuery ==
    /\ [](pc = "model" =>
            /\ focusQuery.input = userInput
            /\ turnCount = 1 => focusQuery.digest = <<>>
            /\ (turnCount > 1 /\ toolSummaries # <<>>) =>
                  /\ focusQuery.digest = toolSummaries
                  /\ \A i \in 1..Len(focusQuery.digest) :
                         focusQuery.digest[i].turn = turnCount - 1
            /\ \A i \in 1..Len(focusQuery.digest) :
                   focusQuery.digest[i].turn < turnCount)
    /\ [][ (pc = "exec" /\ pc' = "turn" /\ toolSummaries = <<>>)
             => focusQuery' = focusQuery ]_vars

\* The third turn is asked with the digest of the first turn, the second
\* turn having executed a tool call that left no summary.
C12_Witness ==
    /\ pc = "model"
    /\ turnCount = 3
    /\ toolSummaries = <<>>
    /\ Len(lastTurnMessages) = 2
    /\ Len(focusQuery.digest) = 1
    /\ focusQuery.digest[1].turn = 1

\* ---------------------------------------------------------------------------
\* The stores called directly: scratchpad.ts and running-summary.ts as
\* libraries, every public method an action.  Each call reads the clock,
\* which moved on by dt since the call before.
\* ---------------------------------------------------------------------------

MaxNow == 2

\* The clock of the calls on the status.
MaxStatusNow == 1

StoreTasks == {1, 2}
StoreKeys == {"a", "b"}
StoreValues == {"v", "w"}

\* The part of the state the stores do not touch.
chatVars == <<pc, turnId, tasks, currentTaskId, chatTaskId, userInput, planning,
              plan, turnCount, finalAnswer, lastTurnMessages, executionHistory,
              focusQuery, messagesForTurn, toolIdx, toolSummaries, stream,
              pendingSummaries, modelCalls, inFlight, invoked, resolvable,
              result, retrieval>>

\* new TaskScratchpad(), new RunningSummary(): both Maps empty.
InitStores ==
    /\ InitAgent
    /\ tasks = <<>>
    /\ currentTaskId = 0
    /\ scratchpad = [t \in StoreTasks |-> <<>>]
    /\ runningSummary = [t \in StoreTasks |-> NoSummary]
    /\ storeOp = NoOp(scratchpad, runningSummary)

\* The record of a call on the scratchpad.
ScratchpadOp(kind, taskId, key, value, text) ==
    [kind |-> kind, taskId |-> taskId, key |-> key, value |-> value,
     args |-> NoSummary, threw |-> FALSE, text |-> text,
     scratchpad |-> scratchpad, runningSummary |-> runningSummary]

\* scratchpad.update(taskId, key, value)
CallScratchpadUpdate(taskId, key, value, dt) ==
    /\ now + dt <= MaxNow
    /\ now' = now + dt
    /\ scratchpad' = ScratchpadUpdate(scratchpad, taskId, key, value, now')
    /\ storeOp' = ScratchpadOp("update", taskId, key, value, <<>>)
    /\ UNCHANGED <<chatVars, runningSummary>>

\* scratchpad.delete(taskId, key)
CallScratchpadDelete(taskId, key) ==
    /\ scratchpad' = ScratchpadDelete(scratchpad, taskId, key)
    /\ storeOp' = ScratchpadOp("delete", taskId, key, Null, <<>>)
    /\ UNCHANGED <<chatVars, runningSummary, now>>

\* scratchpad.clear(taskId), scratchpad.clear()
CallScratchpadClear(taskId) ==
    /\ scratchpad' = ScratchpadClear(scratchpad, taskId)
    /\ storeOp' = ScratchpadOp("clear", taskId, Null, Null, <<>>)
    /\ UNCHANGED <<chatVars, runningSummary, now>>

\* scratchpad.getFormattedContent(taskId)
CallScratchpadRender(taskId) ==
    /\ scratchpad' = GetTaskStore(scratchpad, taskId)
    /\ storeOp' = ScratchpadOp("render", taskId, Null, Null,
                               ScratchpadRender(scratchpad, taskId))
    /\ UNCHANGED <<chatVars, runningSummary, now>>

\* The record of a call on the status.
StatusOp(kind, taskId, args, outcome) ==
    [kind |-> kind, taskId |-> taskId, key |-> Null, value |-> Null,
     args |-> args, threw |-> outcome.threw, text |-> outcome.text,
     scratchpad |-> scratchpad, runningSummary |-> runningSummary]

\* The values a call of update_running_summary gives to its fields.
StatusFieldValues ==
    [done : {JArray(<<"s">>)}, doing : {"d"}, next : {"n"},
     blockers : {"", "b"}]

\* The argument objects: any of the fields present.
StatusArgs ==
    { [f \in fs |-> full[f]] :
        full \in StatusFieldValues,
        fs \in SUBSET {"done", "doing", "next", "blockers"} }

\* runningSummary.handleToolCall(taskId, args)
CallRunningSummaryUpdate(taskId, args, dt) ==
    LET r == RunningSummaryHandleToolCall(runningSummary, taskId, Parsed(args),
                                          now + dt)
    IN  /\ now + dt <= MaxStatusNow
        /\ now' = now + dt
        /\ runningSummary' = r.store
        /\ storeOp' = StatusOp("status_update", taskId, args, r)
        /\ UNCHANGED <<chatVars, scratchpad>>

\* runningSummary.clear(taskId), runningSummary.clear()
CallRunningSummaryClear(taskId) ==
    /\ runningSummary' = RunningSummaryClear(runningSummary, taskId)
    /\ storeOp' = StatusOp("status_clear", taskId, NoSummary,
                           [threw |-> FALSE, text |-> <<>>])
    /\ UNCHANGED <<chatVars, scratchpad, now>>

\* runningSummary.getFormattedContent(taskId)
CallRunningSummaryRender(taskId) ==
    /\ storeOp' = StatusOp("status_render", taskId, NoSummary,
                           RunningSummaryRender(runningSummary, taskId))
    /\ UNCHANGED <<chatVars, scratchpad, runningSummary, now>>

NextStatus ==
    \/ \E t \in StoreTasks, a \in StatusArgs, dt \in 0..1 :
           CallRunningSummaryUpdate(t, a, dt)
    \/ \E t \in StoreTasks \cup {0} : CallRunningSummaryClear(t)
    \/ \E t \in StoreTasks : CallRunningSummaryRender(t)

SpecStatus == InitStores /\ [][NextStatus]_vars

\* Calls of update_running_summary that carry done, doing and next, with
\* two values for doing and three arrays for done.
ProgressArgs ==
    [done : {JArray(<<"s">>), JArray(<<"t">>), JArray(<<"s", "t">>)},
     doing : {"d", "e"}, next : {"n"}]

NextProgress ==
    \/ \E t \in StoreTasks, a \in ProgressArgs, dt \in 0..1 :
           CallRunningSummaryUpdate(t, a, dt)
    \/ \E t \in StoreTasks : CallRunningSummaryClear(t)

SpecProgress == InitStores /\ [][NextProgress]_vars

NextScratchpad ==
    \/ \E t \in StoreTasks, k \in StoreKeys, v \in StoreValues, dt \in 0..1 :
           CallScratchpadUpdate(t, k, v, dt)
    \/ \E t \in StoreTasks, k \in StoreKeys : CallScratchpadDelete(t, k)
    \/ \E t \in StoreTasks \cup {0} : CallScratchpadClear(t)
    \/ \E t \in StoreTasks : CallScratchpadRender(t)

SpecScratchpad == InitStores /\ [][NextScratchpad]_vars

\* Both stores side by side, each written with one value and read by its
\* getFormattedContent.
RenderArgs == {a \in StatusArgs : DOMAIN a = {"doing", "next"}}

NextRender ==
    \/ \E t \in StoreTasks, k \in StoreKeys, dt \in 0..1 :
           CallScratchpadUpdate(t, k, "v", dt)
    \/ \E t \in StoreTasks, k \in StoreKeys : CallScratchpadDelete(t, k)
    \/ \E t \in StoreTasks : CallScratchpadClear(t)
    \/ \E t \in StoreTasks : CallScratchpadRender(t)
    \/ \E t \in StoreTasks, a \in RenderArgs : CallRunningSummaryUpdate(t, a, 0)
    \/ \E t \in StoreTasks : CallRunningSummaryClear(t)
    \/ \E t \in StoreTasks : CallRunningSummaryRender(t)

SpecRender == InitStores /\ [][NextRender]_vars


\* ---------------------------------------------------------------------------
\* The Task Registry called directly: task-manager.ts as a library.
\* ---------------------------------------------------------------------------

MaxRegistry == 3

\* The ids randomUUID may give and switchTask, updateTaskTitle may be given.
RegistryIds == 1..MaxRegistry
RegistryTitles == {"t", "Default Task"}

\* The record of a call on the registry, with the registry before it; id
\* and title are the arguments, returned what the call returned.
TaskOp(kind, id, title, returned) ==
    [kind |-> kind, id |-> id, title |-> title, returned |-> returned,
     tasks |-> tasks, currentTaskId |-> currentTaskId]

\* The part of the state the registry does not touch.
agentVars == <<pc, turnId, chatTaskId, userInput, planning, plan, turnCount,
               finalAnswer, lastTurnMessages, executionHistory, focusQuery,
               messagesForTurn, toolIdx, toolSummaries, stream,
               pendingSummaries, modelCalls, inFlight, invoked, resolvable,
               result, scratchpad, runningSummary, now, retrieval>>

\* new TaskManager(): no task, no current task.
InitRegistry ==
    /\ InitAgent
    /\ tasks = <<>>
    /\ currentTaskId = 0
    /\ scratchpad = [t \in RegistryIds |-> <<>>]
    /\ runningSummary = [t \in RegistryIds |-> NoSummary]
    /\ storeOp = TaskOp("none", 0, Null, 0)

\* taskManager.createTask(title); id is the one randomUUID gives.
CallCreateTask(title, id) ==
    /\ ~HasTask(tasks, id)
    /\ LET r == CreateTask(tasks, title, id, now)
       IN  /\ tasks' = r.tasks
           /\ currentTaskId' = r.currentTaskId
           /\ storeOp' = TaskOp("create", id, title, id)
    /\ UNCHANGED agentVars

\* taskManager.switchTask(id)
CallSwitchTask(id) ==
    /\ LET r == SwitchTask(tasks, currentTaskId, id)
       IN  /\ currentTaskId' = r.currentTaskId
           /\ storeOp' = TaskOp("switch", id, Null, r.ok)
    /\ UNCHANGED <<agentVars, tasks>>

\* taskManager.updateTaskTitle(id, title)
CallUpdateTaskTitle(id, title) ==
    /\ tasks' = UpdateTaskTitle(tasks, id, title)
    /\ storeOp' = TaskOp("retitle", id, title, HasTask(tasks, id))
    /\ UNCHANGED <<agentVars, currentTaskId>>

\* taskManager.getCurrentTaskId(); id is the one randomUUID gives if the call
\* creates a task.
CallGetCurrentTaskId(id) ==
    /\ ~HasTask(tasks, id)
    /\ LET r == GetCurrentTaskId(tasks, currentTaskId, id, now)
       IN  /\ tasks' = r.tasks
           /\ currentTaskId' = r.currentTaskId
           /\ storeOp' = TaskOp("currentId", id, Null, r.currentTaskId)
    /\ UNCHANGED agentVars

NextRegistry ==
    \/ \E title \in RegistryTitles, id \in RegistryIds : CallCreateTask(title, id)
    \/ \E id \in RegistryIds : CallSwitchTask(id)
    \/ \E id \in RegistryIds : CallUpdateTaskTitle(id, "r")
    \/ \E id \in RegistryIds \cup {MaxRegistry + 1} : CallGetCurrentTaskId(id)

SpecRegistry == InitRegistry /\ [][NextRegistry]_vars

\* ---------------------------------------------------------------------------
\* Properties of the scratchpad called directly (SpecScratchpad).
\* ---------------------------------------------------------------------------

\* The lines of a render that show the key.
LinesOf(text, key) == {i \in 1..Len(text) : text[i][1] = key}

\* The value stored under the key for the task, Null when there is none.
ValueOf(store, taskId, key) ==
    IF KeyIndex(store[taskId], key) = 0 THEN Null
    ELSE store[taskId][KeyIndex(store[taskId], key)].value

\* C14: after update(T, k, v) the render of T shows k with value v, once;
\* after delete(T, k) the render of T does not show k, and it is the empty
\* string when T held no other key.
C14_RoundTrip ==
    LET T == storeOp.taskId
        k == storeOp.key
        text == ScratchpadRender(scratchpad, T)
    IN  /\ storeOp.kind = "update" =>
               /\ Cardinality(LinesOf(text, k)) = 1
               /\ \A i \in LinesOf(text, k) : text[i] = <<k, storeOp.value>>
        /\ storeOp.kind = "delete" =>
               /\ LinesOf(text, k) = {}
               /\ (\A i \in 1..Len(storeOp.scratchpad[T]) :
                       storeOp.scratchpad[T][i].key = k) => text = <<>>

\* A delete of the only key of a task, which the render showed before.
C14_Witness ==
    /\ storeOp.kind = "delete"
    /\ Len(storeOp.scratchpad[storeOp.taskId]) = 1
    /\ ScratchpadRender(storeOp.scratchpad, storeOp.taskId)
           = <<<<storeOp.key, "w">>>>
    /\ ScratchpadRender(scratchpad, storeOp.taskId) = <<>>

\* C15: a task holds at most one entry per key; an update of k stores v
\* under k and leaves every other key, and every other task, as it was; an
\* entry changes only through an update of its key and disappears only
\* through a delete of its key or a clear of its task or of all tasks.
C15_OneEntryPerKey ==
    LET T == storeOp.taskId
        k == storeOp.key
        before == storeOp.scratchpad
    IN  /\ \A t \in DOMAIN scratchpad : \A i, j \in 1..Len(scratchpad[t]) :
               scratchpad[t][i].key = scratchpad[t][j].key => i = j
        /\ storeOp.kind = "update" =>
               /\ ValueOf(scratchpad, T, k) = storeOp.value
               /\ \A t \in DOMAIN scratchpad : \A key \in StoreKeys :
                      <<t, key>> # <<T, k>> =>
                          ValueOf(scratchpad, t, key) = ValueOf(before, t, key)
        /\ storeOp.kind # "none" =>
               \A t \in DOMAIN scratchpad : \A key \in StoreKeys :
                   /\ (ValueOf(before, t, key) # Null
                         /\ ValueOf(scratchpad, t, key) = Null) =>
                          \/ storeOp.kind = "delete" /\ T = t /\ k = key
                          \/ storeOp.kind = "clear" /\ T \in {t, 0}
                   /\ (ValueOf(scratchpad, t, key) # Null
                         /\ ValueOf(scratchpad, t, key) # ValueOf(before, t, key)) =>
                          storeOp.kind = "update" /\ T = t /\ k = key

\* An update that replaces a value next to another key of the same task and
\* to the same key of another task.
C15_Witness ==
    /\ storeOp.kind = "update"
    /\ storeOp.taskId = 1
    /\ storeOp.key = "a"
    /\ ValueOf(storeOp.scratchpad, 1, "a") = "v"
    /\ ValueOf(scratchpad, 1, "a") = "w"
    /\ ValueOf(scratchpad, 1, "b") = "v"
    /\ ValueOf(scratchpad, 2, "a") = "v"
    /\ Len(scratchpad[1]) = 2

\* The render of a task line by line as the Map iterates its entries.
InsertionOrder(store, taskId) ==
    [i \in 1..Len(store[taskId]) |->
        <<store[taskId][i].key, store[taskId][i].value>>]

\* C17 as stated: the render lists the entries in the order their keys were
\* first inserted, also after a value was updated again.
C17_InsertionOrder ==
    \A t \in DOMAIN scratchpad :
        ScratchpadRender(scratchpad, t) = InsertionOrder(scratchpad, t)

\* C17: the render lists every entry once, ordered by the time of its last
\* write, oldest first; entries written at the same time keep the order in
\* which their keys were inserted.
C17_LastWriteOrder ==
    \A t \in DOMAIN scratchpad :
        LET m == scratchpad[t]
            text == ScratchpadRender(scratchpad, t)
            at(i) == KeyIndex(m, text[i][1])
        IN  /\ Len(text) = Len(m)
            /\ \A i \in 1..Len(text) :
                   at(i) # 0 /\ text[i] = <<m[at(i)].key, m[at(i)].value>>
            /\ \A i, j \in 1..Len(text) : i < j =>
                   \/ m[at(i)].timestamp < m[at(j)].timestamp
                   \/ m[at(i)].timestamp = m[at(j)].timestamp /\ at(i) < at(j)

\* Key a was inserted before key b and updated again after it: the render
\* shows b first.
C17_Witness ==
    /\ storeOp.kind = "update"
    /\ storeOp.taskId = 1
    /\ storeOp.key = "a"
    /\ InsertionOrder(scratchpad, 1) = <<<<"a", "w">>, <<"b", "v">>>>
    /\ InsertionOrder(storeOp.scratchpad, 1) = <<<<"a", "v">>, <<"b", "v">>>>
    /\ ScratchpadRender(storeOp.scratchpad, 1) = <<<<"a", "v">>, <<"b", "v">>>>
    /\ ScratchpadRender(scratchpad, 1) = <<<<"b", "v">>, <<"a", "w">>>>


\* ---------------------------------------------------------------------------
\* Properties of the running status called directly (SpecStatus).
\* ---------------------------------------------------------------------------

StatusFields == {"done", "doing", "next", "blockers"}

\* What a task's status holds in a field before its first update.
FirstUpdateDefaults ==
    [done |-> JArray(<<>>), doing |-> "", next |-> "", blockers |-> ""]

\* The field of a task's status as an update finds it.
FieldBefore(store, taskId, f) ==
    IF store[taskId] = NoSummary THEN FirstUpdateDefaults[f]
    ELSE store[taskId][f]

\* C19: an update of the status of T merges field by field: a field the
\* call carries is replaced by the call's value, a field it leaves out keeps
\* the stored value, the defaults standing for the stored value on the first
\* update; no other task's status changes.
C19_FieldByFieldMerge ==
    storeOp.kind = "status_update" =>
        LET T == storeOp.taskId
            args == storeOp.args
            before == storeOp.runningSummary
        IN  /\ runningSummary[T] # NoSummary
            /\ \A f \in StatusFields :
                   runningSummary[T][f] =
                       IF f \in DOMAIN args THEN args[f]
                       ELSE FieldBefore(before, T, f)
            /\ \A t \in DOMAIN runningSummary :
                   t # T => runningSummary[t] = before[t]

\* An update carrying doing alone, on a status that held done, next and
\* blockers.
C19_Witness ==
    /\ storeOp.kind = "status_update"
    /\ DOMAIN storeOp.args = {"doing"}
    /\ storeOp.runningSummary[storeOp.taskId] # NoSummary
    /\ storeOp.runningSummary[storeOp.taskId].doing = ""
    /\ runningSummary[storeOp.taskId].done = JArray(<<"s">>)
    /\ runningSummary[storeOp.taskId].doing = "d"
    /\ runningSummary[storeOp.taskId].next = "n"
    /\ runningSummary[storeOp.taskId].blockers = "b"

\* The call carries what the tool's schema requires.
CarriesRequired(args) == {"doing", "next"} \subseteq DOMAIN args

\* C20 as stated: every update_running_summary call overwrites doing, next
\* and blockers; a stored blockers value is gone after a call that does not
\* mention blockers.
C20_OverwritesUnconditionally ==
    (storeOp.kind = "status_update" /\ CarriesRequired(storeOp.args)) =>
        LET after == runningSummary[storeOp.taskId]
        IN  /\ after.doing = storeOp.args.doing
            /\ after.next = storeOp.args.next
            /\ after.blockers = IF "blockers" \in DOMAIN storeOp.args
                                THEN storeOp.args.blockers ELSE ""

\* C20: an update_running_summary call that carries the required doing and
\* next overwrites both; it overwrites blockers when it carries blockers,
\* the empty string included, and leaves the stored blockers in place when
\* it does not.
C20_BlockersKeptUnlessGiven ==
    (storeOp.kind = "status_update" /\ CarriesRequired(storeOp.args)) =>
        LET after == runningSummary[storeOp.taskId]
        IN  /\ after.doing = storeOp.args.doing
            /\ after.next = storeOp.args.next
            /\ after.blockers =
                   IF "blockers" \in DOMAIN storeOp.args
                   THEN storeOp.args.blockers
                   ELSE FieldBefore(storeOp.runningSummary, storeOp.taskId,
                                    "blockers")

\* A call without blockers on a status whose blockers were set: they stay.
C20_Witness ==
    /\ storeOp.kind = "status_update"
    /\ DOMAIN storeOp.args = {"doing", "next"}
    /\ storeOp.runningSummary[storeOp.taskId] # NoSummary
    /\ storeOp.runningSummary[storeOp.taskId].blockers = "b"
    /\ runningSummary[storeOp.taskId].blockers = "b"


\* ---------------------------------------------------------------------------
\* Properties of the renders of both stores (SpecRender).
\* ---------------------------------------------------------------------------

\* C18: a render of the scratchpad or of the status of a task gives the
\* same text when repeated, and changes no entry of any task, no status of
\* any task and no render of any task.  (The empty Map getTaskStore installs
\* for a task that had none holds no entry.)
C18_RenderIdempotent ==
    LET T == storeOp.taskId
        rendered == [threw |-> storeOp.threw, text |-> storeOp.text]
        Unchanged ==
            /\ scratchpad = storeOp.scratchpad
            /\ runningSummary = storeOp.runningSummary
            /\ \A t \in StoreTasks :
                   /\ ScratchpadRender(scratchpad, t)
                          = ScratchpadRender(storeOp.scratchpad, t)
                   /\ RunningSummaryRender(runningSummary, t)
                          = RunningSummaryRender(storeOp.runningSummary, t)
    IN  /\ storeOp.kind = "render" =>
               /\ Unchanged
               /\ ScratchpadRender(scratchpad, T) = storeOp.text
               /\ ScratchpadRender(GetTaskStore(scratchpad, T), T) = storeOp.text
        /\ storeOp.kind = "status_render" =>
               /\ Unchanged
               /\ RunningSummaryRender(runningSummary, T) = rendered

\* A render of a scratchpad with two entries next to a status that is set.
C18_Witness ==
    /\ storeOp.kind = "render"
    /\ Len(storeOp.text) = 2
    /\ Len(scratchpad[storeOp.taskId]) = 2
    /\ runningSummary[storeOp.taskId] # NoSummary
    /\ \E t \in StoreTasks : t # storeOp.taskId /\ scratchpad[t] # <<>>


\* ---------------------------------------------------------------------------
\* Properties of chats that use the scratchpad tool (SpecBuiltIn).
\* ---------------------------------------------------------------------------

\* C13 as stated: for every task the MemoryUnits of the task, read in stream
\* order, have non-decreasing turnId, whatever the order in which the
\* summarizations settle.
C13_TurnIdsNonDecreasing ==
    \A i, j \in 1..Len(stream) :
        (i < j /\ stream[i].taskId = stream[j].taskId) =>
            stream[i].turnId <= stream[j].turnId

\* A manage_scratchpad call without key, an update without value, or an
\* action that is neither update nor delete.
BadScratchpadCall(call) ==
    /\ call.name = "manage_scratchpad"
    /\ call.arguments \in {"{}", "{action:update,key:k}", "{action:rename,key:k}"}

\* C16: the step of executeTools on a manage_scratchpad call with a missing
\* key, an update with a missing value or an unknown action appends an error
\* tool result for the call, leaves the scratchpad of every task as it was
\* and goes on with the next call: chat() does not throw.
C16_ScratchpadCallErrors ==
    [][(/\ pc = "exec"
        /\ toolIdx <= Len(lastTurnMessages[1].tool_calls)
        /\ BadScratchpadCall(lastTurnMessages[1].tool_calls[toolIdx])) =>
           /\ scratchpad' = scratchpad
           /\ pc' = "exec"
           /\ result' = "running"
           /\ toolIdx' = toolIdx + 1
           /\ Len(lastTurnMessages') = Len(lastTurnMessages) + 1
           /\ LET m == lastTurnMessages'[Len(lastTurnMessages')]
              IN  /\ m.role = "tool"
                  /\ m.tool_call_id = lastTurnMessages[1].tool_calls[toolIdx].id
                  /\ m.tag = "scratchpad_error"]_vars

\* A reply whose first call wrote key k and whose second call named an
\* unknown action: key k is still there, next to the note of the other task.
C16_Witness ==
    /\ pc = "exec"
    /\ toolIdx = 3
    /\ lastTurnMessages[1].tool_calls[1].arguments = "{action:update,key:k,value:v}"
    /\ lastTurnMessages[1].tool_calls[2].arguments = "{action:rename,key:k}"
    /\ lastTurnMessages[3].tag = "scratchpad_error"
    /\ result = "running"
    /\ ValueOf(scratchpad, 1, "k") = "v"
    /\ ValueOf(scratchpad, 2, "k") = "w"


\* ---------------------------------------------------------------------------
\* Properties of successive status updates (SpecProgress).
\* ---------------------------------------------------------------------------

\* C21: after an update_running_summary call that follows another one on
\* the same task, the stored doing is the one of the later call and the
\* stored done is exactly the array of the later call, whatever the earlier
\* call stored.
C21_LatestDoingAndDone ==
    (storeOp.kind = "status_update"
        /\ storeOp.runningSummary[storeOp.taskId] # NoSummary) =>
        /\ runningSummary[storeOp.taskId].doing = storeOp.args.doing
        /\ runningSummary[storeOp.taskId].done = storeOp.args.done

\* The earlier call stored doing d and done [s], the later call carried
\* doing e and done [t].
C21_Witness ==
    /\ storeOp.kind = "status_update"
    /\ storeOp.runningSummary[storeOp.taskId] # NoSummary
    /\ storeOp.runningSummary[storeOp.taskId].doing = "d"
    /\ storeOp.runningSummary[storeOp.taskId].done = JArray(<<"s">>)
    /\ runningSummary[storeOp.taskId].doing = "e"
    /\ runningSummary[storeOp.taskId].done = JArray(<<"t">>)


\* ---------------------------------------------------------------------------
\* Properties of the Task Registry called directly (SpecRegistry).
\* ---------------------------------------------------------------------------

\* The ids of the tasks of a registry.
IdsOf(ts) == {ts[i].id : i \in 1..Len(ts)}

\* The tasks of a registry that the pointer names.
CurrentTasks(ts, current) == {i \in 1..Len(ts) : ts[i].id = current}

\* C22: once getCurrentTaskId or createTask was called, exactly one task is
\* current and it is a task of the registry, whatever calls follow;
\* getCurrentTaskId on an empty registry creates one task titled "Default
\* Task" and returns its id, and with a current task it creates nothing and
\* returns the current id.
C22_OneCurrentTask ==
    /\ (tasks # <<>> \/ storeOp.kind \in {"create", "currentId"}) =>
           Cardinality(CurrentTasks(tasks, currentTaskId)) = 1
    /\ tasks = <<>> => currentTaskId = 0
    /\ storeOp.kind = "currentId" =>
           /\ storeOp.returned = currentTaskId
           /\ IF storeOp.tasks = <<>>
              THEN /\ Len(tasks) = 1
                   /\ tasks[1].title = "Default Task"
                   /\ tasks[1].id = storeOp.returned
              ELSE /\ tasks = storeOp.tasks
                   /\ currentTaskId = storeOp.currentTaskId

\* getCurrentTaskId called with three tasks in the registry, the second one
\* current.
C22_Witness ==
    /\ storeOp.kind = "currentId"
    /\ Len(storeOp.tasks) = 3
    /\ Len(tasks) = 3
    /\ currentTaskId = tasks[2].id
    /\ tasks[1].title = "Default Task"

\* C23: switchTask(id) sets the current pointer to id and returns true when
\* id is the id of a task; for any other id it returns false and leaves the
\* pointer as it was; it changes no task.
C23_SwitchIffExists ==
    storeOp.kind = "switch" =>
        /\ tasks = storeOp.tasks
        /\ IF storeOp.id \in IdsOf(storeOp.tasks)
           THEN storeOp.returned = TRUE /\ currentTaskId = storeOp.id
           ELSE storeOp.returned = FALSE
                    /\ currentTaskId = storeOp.currentTaskId

\* A switch to an id no task holds, refused with a current task in place.
C23_Witness ==
    /\ storeOp.kind = "switch"
    /\ storeOp.returned = FALSE
    /\ storeOp.id \notin IdsOf(tasks)
    /\ Len(tasks) = 2
    /\ currentTaskId = tasks[1].id

\* C24: createTask(title) adds one task, with an id no task held, the title
\* given and status active, and makes it current; no call removes a task or
\* changes the id of one.
C24_CreateAndKeep ==
    /\ storeOp.kind = "create" =>
           /\ Len(tasks) = Len(storeOp.tasks) + 1
           /\ tasks[Len(tasks)].id \notin IdsOf(storeOp.tasks)
           /\ tasks[Len(tasks)].title = storeOp.title
           /\ tasks[Len(tasks)].status = "active"
           /\ currentTaskId = tasks[Len(tasks)].id
           /\ storeOp.returned = currentTaskId
    /\ storeOp.kind # "none" =>
           /\ Len(tasks) >= Len(storeOp.tasks)
           /\ \A i \in 1..Len(storeOp.tasks) : tasks[i].id = storeOp.tasks[i].id
    /\ Cardinality(IdsOf(tasks)) = Len(tasks)

\* A second task created while the first one was current.
C24_Witness ==
    /\ storeOp.kind = "create"
    /\ Len(storeOp.tasks) = 1
    /\ storeOp.currentTaskId = storeOp.tasks[1].id
    /\ Len(tasks) = 2
    /\ currentTaskId = tasks[2].id
    /\ tasks[2].title = "t"


\* ---------------------------------------------------------------------------
\* Task isolation of the two stores (SpecRender).
\* ---------------------------------------------------------------------------

\* C25: an update, delete or clear(T) of the scratchpad of task T, or an
\* update or clear(T) of its status, leaves the scratchpad render and the
\* status render of every other task as they were.
C25_TaskIsolation ==
    (storeOp.kind \in {"update", "delete", "clear", "status_update",
                       "status_clear"}
        /\ storeOp.taskId # 0) =>
        \A t \in StoreTasks \ {storeOp.taskId} :
            /\ ScratchpadRender(scratchpad, t)
                   = ScratchpadRender(storeOp.scratchpad, t)
            /\ RunningSummaryRender(runningSummary, t)
                   = RunningSummaryRender(storeOp.runningSummary, t)

\* clear(1) of a scratchpad that held entries while task 2 holds entries
\* and a status.
C25_Witness ==
    /\ storeOp.kind = "clear"
    /\ storeOp.taskId = 1
    /\ storeOp.scratchpad[1] # <<>>
    /\ scratchpad[1] = <<>>
    /\ Len(ScratchpadRender(scratchpad, 2)) = 2
    /\ RunningSummaryRender(runningSummary, 2).text # <<>>


\* ---------------------------------------------------------------------------
\* The phases of chat() (Spec).
\* ---------------------------------------------------------------------------

\* The units of role user the stream holds for the chat() call under way.
UserUnits == {i \in 1..Len(stream) :
                 stream[i].role = "user" /\ stream[i].turnId = turnId}

\* chat() returned on the first reply, after a planner reply with an empty
\* step list.
TrivialChat ==
    /\ pc = "returned"
    /\ turnCount = 1
    /\ plan = Parsed([steps |-> <<>>])

\* One model turn was run, no tool was executed and the reply of turn 1 is
\* the final answer.
OneTurnNoTool ==
    /\ modelCalls = 1
    /\ Len(lastTurnMessages) = 1
    /\ lastTurnMessages[1].role = "assistant"
    /\ lastTurnMessages[1].turn = 1
    /\ toolIdx = 0
    /\ invoked = <<>>
    /\ toolSummaries = <<>>
    /\ result = "returned"
    /\ finalAnswer = (IF lastTurnMessages[1].text \in {Null, ""} THEN ""
                      ELSE lastTurnMessages[1].text)

\* C26 as stated: in a chat() whose planner returns an empty step list and
\* whose first reply has no tool calls, exactly one MemoryUnit of role user
\* is recorded, one model turn is run, no tool is executed and the reply of
\* turn 1 is returned.
C26_OneUserUnit ==
    TrivialChat => Cardinality(UserUnits) = 1 /\ OneTurnNoTool

\* C26: in such a chat() at most one MemoryUnit of role user is recorded,
\* none when summarizeUserMessage failed; one model turn is run, no tool is
\* executed and the reply of turn 1 is returned.
C26_AtMostOneUserUnit ==
    TrivialChat =>
        /\ Cardinality(UserUnits) <= 1
        /\ \A i \in 1..Len(stream) :
               stream[i].turnId = turnId =>
                   \/ stream[i].role = "user" /\ stream[i].turn = 0
                   \/ stream[i].role = "assistant" /\ stream[i].turn = 1
        /\ OneTurnNoTool

\* The trivial chat with its user message recorded and the reply x returned.
C26_Witness ==
    /\ TrivialChat
    /\ Cardinality(UserUnits) = 1
    /\ finalAnswer = "x"
    /\ lastTurnMessages[1].text = "x"


\* The prompt of the turn is being built by a retrieval that runs: the loop
\* goes on and the render of the status, which comes first, does not throw.
RetrievalRuns ==
    /\ pc = "turn"
    /\ LoopCondition
    /\ ~(PlanHasSteps(plan) /\ RunningSummaryRender(runningSummary, chatTaskId).threw)

\* C28: a failure of the retrieval of the turn (a selector reply of the
\* wrong shape, a failed model call) is not raised by buildContextForTurn:
\* the prompt is built without a recall message and the model call of the
\* turn is issued.
C28_RetrievalFailureDegrades ==
    /\ [](pc = "model" /\ messagesForTurn.recallFailure # "none" =>
              /\ messagesForTurn.recall = {}
              /\ MessageCount(messagesForTurn)
                     = 2 + (IF messagesForTurn.panel THEN 1 ELSE 0)
                         + Len(messagesForTurn.prev)
              /\ inFlight = "model"
              /\ result = "running")
    /\ [][RetrievalRuns =>
              /\ pc' = "model"
              /\ modelCalls' = modelCalls + 1
              /\ result' = "running"]_vars

\* The second turn whose retrieval failed on the shape of the selector
\* reply, with the panel and the messages of turn 1 in the prompt.
C28_Witness ==
    /\ pc = "model"
    /\ turnCount = 2
    /\ messagesForTurn.recallFailure = "bad_shape"
    /\ messagesForTurn.panel
    /\ Len(messagesForTurn.prev) = 2
    /\ modelCalls = 2


\* C30: chat() runs its phases in the order planning, recording of the user
\* message, turn 1.  The step of the planning phase writes no MemoryUnit,
\* no scratchpad entry and no running status; the stream holds no unit of
\* the call before the recording step, which appends at most the unit of
\* the user message.  (A summarization an earlier chat() left pending may
\* settle meanwhile: that step is not one of the planning phase.)
C30_PhaseOrder ==
    /\ [](pc \in {"planning", "record"} =>
              \A i \in 1..Len(stream) : stream[i].turnId # turnId)
    /\ [][/\ (pc = "planning" /\ pc' # "planning") =>
                 /\ pc' = "record"
                 /\ stream' = stream
                 /\ scratchpad' = scratchpad
                 /\ runningSummary' = runningSummary
                 /\ pendingSummaries' = pendingSummaries
          /\ (pc = "record" /\ pc' # "record") =>
                 /\ pc' = "turn"
                 /\ turnCount' = 0
                 /\ stream' \in {stream,
                                 Append(stream, MemoryUnit(chatTaskId, turnId,
                                                           "user", 0, 0))}
                 /\ scratchpad' = scratchpad
                 /\ runningSummary' = runningSummary
          /\ (pc' = "planning" /\ pc # "planning") =>
                 pc \in {"idle", "returned", "thrown"}
          /\ (pc' = "record" /\ pc # "record") => pc = "planning"
          /\ (turnCount' = 1 /\ turnCount # 1) =>
                 pc = "turn" /\ turnCount = 0]_vars

\* Turn 1 of the second chat() under way, after a planning phase that left a
\* plan with steps and a recording step that appended the user message.
C30_Witness ==
    /\ pc = "model"
    /\ turnId = 2
    /\ turnCount = 1
    /\ PlanHasSteps(plan)
    /\ Len(stream) >= 1
    /\ stream[Len(stream)] = MemoryUnit(chatTaskId, 2, "user", 0, 0)
    /\ scratchpad[chatTaskId] # <<>>


-----------------------------------------------------------------------------
\* Memoryer.retrieve called directly on summaries of both memories, with
\* and without a short-term reader (SpecRetrieve).

\* The selector call of retrieve() settles.
SelectorReturn(reply) ==
    /\ retrieval.pc = "select"
    /\ retrieval' = Selected(retrieval, reply)
    /\ UNCHANGED <<pc, turnId, taskVars, chatTaskId, userInput, planning, plan,
                   loopVars, storeVars, stream, pendingSummaries, modelCalls,
                   inFlight, invoked, resolvable, result, now, storeOp>>

\* The read of the current id settles.
ReadReturn(outcome) ==
    /\ retrieval.pc = "read"
    /\ retrieval' = Hydrated(retrieval, outcome)
    /\ UNCHANGED <<pc, turnId, taskVars, chatTaskId, userInput, planning, plan,
                   loopVars, storeVars, stream, pendingSummaries, modelCalls,
                   inFlight, invoked, resolvable, result, now, storeOp>>

\* memoryer.retrieve(query, summaries, memoryMcp, memoryManager?)
CallRetrieve(summaries, shortTermReader) ==
    /\ pc = "idle"
    /\ retrieval.pc \in {"idle", "done"}
    /\ retrieval' = RetrieveStart(summaries, shortTermReader)
    /\ UNCHANGED <<pc, turnId, taskVars, chatTaskId, userInput, planning, plan,
                   loopVars, storeVars, stream, pendingSummaries, modelCalls,
                   inFlight, invoked, resolvable, result, now, storeOp>>

NextRetrieve ==
    \/ \E summaries \in SummaryLists, shortTermReader \in BOOLEAN :
          CallRetrieve(summaries, shortTermReader)
    \/ \E reply \in SelectorReplies : SelectorReturn(reply)
    \/ \E outcome \in ReadOutcomes : ReadReturn(outcome)

SpecRetrieve == Init /\ [][NextRetrieve]_vars

\* The reads that answered something a block can be made of.
Answered == { i \in 1..Len(retrieval.reads) :
                  /\ ~retrieval.reads[i].threw
                  /\ retrieval.reads[i].text # Null }

\* C27: retrieval never returns more full-content blocks than the selector
\* returned ids, and every selected id contributes at most one block: the
\* blocks are, in order, blocks of distinct positions of the selected list
\* whose read answered.  An id whose read fails contributes no block and
\* does not fail the retrieval: the loop goes on to the next id and the
\* call returns the blocks of the others, or the fixed failure text.
C27_AtMostOneBlockPerId ==
    LET r == retrieval
    IN  /\ Len(r.contents) <= Len(r.targetIds)
        /\ \E f \in [1..Len(r.contents) -> 1..Len(r.reads)] :
               /\ \A j, k \in 1..Len(r.contents) : j < k => f[j] < f[k]
               /\ \A j \in 1..Len(r.contents) :
                      /\ f[j] \in Answered
                      /\ r.contents[j].id = r.targetIds[f[j]]
        /\ r.pc = "read" => /\ Len(r.reads) = r.idx - 1
                            /\ r.idx <= Len(r.targetIds)
        /\ (r.pc = "done" /\ Len(r.targetIds) > 0) =>
               /\ Len(r.reads) = Len(r.targetIds)
               /\ r.text = IF Len(r.contents) = 0 THEN "read_failed"
                           ELSE "contents"

\* Two ids were selected, the read of the first one was rejected, and the
\* retrieval returned the block of the second one.
C27_Witness ==
    /\ retrieval.pc = "done"
    /\ retrieval.targetIds = <<"m1", "m2">>
    /\ retrieval.reads[1].threw
    /\ Len(retrieval.contents) = 1
    /\ retrieval.contents[1].id = "m2"
    /\ retrieval.text = "contents"

-----------------------------------------------------------------------------
\* The search_memories branch of executeTools: the raw result is parsed as
\* a list of summaries, tagged long_term and handed to Memoryer.retrieve
\* (SpecSearch).

MaxSearchChats == 1      \* chat() invocations per behaviour

\* The text of the raw result: nothing, not JSON, JSON that is not an
\* array, an array of no, one or two summaries.
SearchTexts ==
    { "", "not json", "{}", "null", "[]", "[{id:m1}]", "[{id:m1},{id:m2}]" }

SearchOutcomes ==
    { [settled |-> TRUE, threw |-> TRUE, text |-> "boom"] } \cup
    { [settled |-> TRUE, threw |-> FALSE, text |-> t] : t \in SearchTexts }

\* JSON.parse(rawSummaries): ok = FALSE when it throws, array when the
\* value is an array, whose items are then the summaries.
RawValue(raw) ==
    CASE raw \in {"", "not json"} ->
             [ok |-> FALSE, array |-> FALSE, items |-> <<>>]
      [] raw \in {"{}", "null"} ->
             [ok |-> TRUE, array |-> FALSE, items |-> <<>>]
      [] raw = "[]" ->
             [ok |-> TRUE, array |-> TRUE, items |-> <<>>]
      [] raw = "[{id:m1}]" ->
             [ok |-> TRUE, array |-> TRUE, items |-> <<[id |-> "m1"]>>]
      [] raw = "[{id:m1},{id:m2}]" ->
             [ok |-> TRUE, array |-> TRUE,
              items |-> <<[id |-> "m1"], [id |-> "m2"]>>]

\* let summaries = []; summaries = JSON.parse(rawSummaries) in its own
\* try; not an array: []; every item tagged source long_term.
ParseSummaries(raw) ==
    LET v == RawValue(raw)
    IN  IF ~v.ok \/ ~v.array
        THEN <<>>
        ELSE [i \in 1..Len(v.items) |->
                 [id |-> v.items[i].id, source |-> "long_term"]]

\* contentText = rawSummaries: read_memory is not registered, or reading
\* args.query threw inside the try around the refinement.
RawFallback(raw) == [NoRetrieval EXCEPT !.pc = "skipped", !.text = raw]

\* callTool of search_memories settles: a rejection becomes an error
\* result; a result is parsed and refined by Memoryer.retrieve.
SearchReturn(outcome) ==
    /\ pc = "tool"
    /\ CurrentCall.name = "search_memories"
    /\ invoked' = [invoked EXCEPT ![toolIdx] =
                      [@ EXCEPT ![Len(@)] = outcome]]
    /\ IF outcome.threw
       THEN /\ PushResult(ProviderResultMsg(CurrentCall, outcome))
            /\ toolIdx' = toolIdx + 1
            /\ inFlight' = "none"
            /\ pc' = "exec"
            /\ UNCHANGED retrieval
       ELSE /\ retrieval' =
                  IF \/ "read_memory" \notin toolMap
                     \/ JSONparse(CurrentCall.arguments).isNull
                  THEN RawFallback(outcome.text)
                  ELSE RetrieveStart(ParseSummaries(outcome.text), TRUE)
            /\ inFlight' = "retrieve"
            /\ pc' = "retrieve"
            /\ UNCHANGED <<executionHistory, lastTurnMessages, toolIdx>>
    /\ UNCHANGED <<turnId, taskVars, chatTaskId, userInput, planning, plan,
                   turnCount, finalAnswer, focusQuery, messagesForTurn,
                   toolSummaries, storeVars, stream, pendingSummaries,
                   modelCalls, resolvable, result, now, storeOp>>

\* contentText is settled: it is summarized (awaited, best effort) and
\* pushed as the tool result.
RetrievalReturn(recorded) ==
    /\ pc = "retrieve"
    /\ retrieval.pc \in {"done", "skipped"}
    /\ LET call == CurrentCall
       IN  /\ PushResult(ProviderResultMsg(call,
                  [settled |-> TRUE, threw |-> FALSE, text |-> retrieval.text]))
           /\ stream' = IF recorded
                        THEN Append(stream, MemoryUnit(chatTaskId, turnId,
                                                "tool", turnCount, call.id))
                        ELSE stream
           /\ toolSummaries' = IF recorded
                               THEN Append(toolSummaries, Digest(call))
                               ELSE toolSummaries
    /\ toolIdx' = toolIdx + 1
    /\ inFlight' = "none"
    /\ pc' = "exec"
    /\ UNCHANGED <<turnId, taskVars, chatTaskId, userInput, planning, plan,
                   turnCount, finalAnswer, focusQuery, messagesForTurn,
                   storeVars, pendingSummaries, modelCalls, invoked,
                   resolvable, result, now, storeOp, retrieval>>

\* The first reply of the chat is a final answer or up to MaxCalls calls of
\* search_memories, with a query or with the arguments null; every later
\* reply is a final answer.
SearchCallSeqs ==
    UNION { [1..n -> {"search_memories"} \X {"{query:q}", "null"}] :
                n \in 1..MaxCalls }

SearchReplies(turn) ==
    IF turn = 1
    THEN FinalReplies \cup
         { [content |-> Null, has_tool_calls |-> TRUE, tool_calls |-> MkCalls(cs)] :
               cs \in SearchCallSeqs }
    ELSE FinalReplies

NextSearch ==
    \/ \E input \in UserInputs : turnId < MaxSearchChats /\ ChatStart(input)
    \/ \E recall \in RecallOutcomes(chatTaskId), planner \in PlannerOutcomes :
          Planning(recall, planner)
    \/ \E recorded \in Recordings : RecordUser(recorded)
    \/ \E recall \in RecallOutcomes(chatTaskId) : TurnStart(recall)
    \/ \E response \in SearchReplies(turnCount), recorded \in Recordings :
          ModelReply(response, recorded)
    \/ ModelThrow
    \/ ExecuteTool
    \/ \E outcome \in SearchOutcomes : SearchReturn(outcome)
    \/ \E reply \in SelectorReplies : SelectorReturn(reply)
    \/ \E outcome \in ReadOutcomes : ReadReturn(outcome)
    \/ \E recorded \in Recordings : RetrievalReturn(recorded)
    \/ ExecuteToolsReturn

SpecSearch == Init /\ [][NextSearch]_vars

\* The raw result of the search call k is not a JSON array.
NotAList(k) ==
    /\ Calls[k].name = "search_memories"
    /\ Len(invoked[k]) = 1
    /\ invoked[k][1].settled
    /\ ~invoked[k][1].threw
    /\ ~RawValue(invoked[k][1].text).array

\* C29: a raw result of search_memories that is not JSON, or not a JSON
\* array, is tolerated: the call gets a non-error tool result into which
\* the raw result is passed through, and chat() does not fail over it.
C29_RawPassedThrough ==
    /\ pc = "retrieve" => result # "TypeError"
    /\ (pc \in {"exec", "tool", "retrieve"} /\ turnCount = 1) =>
           \A k \in 1..NumResults :
               NotAList(k) =>
                   /\ ResultOf(k).role = "tool"
                   /\ ResultOf(k).tool_call_id = Calls[k].id
                   /\ ResultOf(k).tag = "output"
                   /\ ResultOf(k).text =
                         IF invoked[k][1].text = "" THEN "(no text output)"
                         ELSE invoked[k][1].text

-----------------------------------------------------------------------------
\* Retries, the stores and the stream over the turns of chat() (Spec).

\* C31: nothing is retried.  The provider is invoked at most once for a
\* tool call of the reply at hand, a rejected invocation included, and
\* every turn of a chat() has issued exactly one model call, a failed one
\* included: the number of model calls is the number of turns.
C31_NothingRetried ==
    /\ \A k \in 1..Len(invoked) : Len(invoked[k]) <= 1
    /\ pc \notin {"idle", "planning", "record", "turn"} =>
           modelCalls = turnCount

\* The part of C31 that holds: no tool call has a second invocation and no
\* turn a second model call.
AtMostOnce ==
    /\ \A k \in 1..Len(invoked) : Len(invoked[k]) <= 1
    /\ modelCalls <= turnCount

\* C35: for a reply with tool calls c1..cm executeTools appends one tool
\* result per call, with the id of the call, in the order of the calls,
\* directly after the reply, to the buffer of the turn and to the execution
\* history alike: while call k is worked on the results of c1..c(k-1) are
\* there, and once executeTools is over those of all m calls.
C35_OneResultPerCall ==
    (Len(lastTurnMessages) >= 1 /\ WantsTools(lastTurnMessages[1])) =>
        /\ lastTurnMessages[1].role = "assistant"
        /\ executionHistory = lastTurnMessages
        /\ NumResults = IF pc \in {"exec", "tool", "retrieve"}
                        THEN toolIdx - 1 ELSE Len(Calls)
        /\ \A k \in 1..NumResults :
               /\ ResultOf(k).role = "tool"
               /\ ResultOf(k).tool_call_id = Calls[k].id

\* C36: no tool call makes chat() throw.  Whatever the name and the
\* argument text of the call executeTools turns to, the step either appends
\* the one tool result of the call and goes on to the next call, or
\* suspends on the provider of the call; chat() keeps running.
C36_NoToolCallThrows ==
    [][(pc = "exec" /\ toolIdx <= Len(lastTurnMessages[1].tool_calls)) =>
           /\ pc' \in {"exec", "tool"}
           /\ result' = "running"
           /\ pc' = "exec" =>
                  /\ toolIdx' = toolIdx + 1
                  /\ Len(lastTurnMessages') = Len(lastTurnMessages) + 1
                  /\ lastTurnMessages'[Len(lastTurnMessages')].role = "tool"
                  /\ lastTurnMessages'[Len(lastTurnMessages')].tool_call_id
                         = lastTurnMessages[1].tool_calls[toolIdx].id]_vars

\* C38: the prompt of a turn holds the progress panel (the steps of the
\* plan, the render of the running status and the render of the scratchpad
\* of the task) exactly if the plan of this chat() has at least one step.
\* When planning failed or gave no step, the prompt holds none of the
\* three, whatever the stores of the task hold by then.
C38_PanelIffSteps ==
    pc = "model" =>
        IF ~plan.isNull /\ "steps" \in DOMAIN plan.obj /\ Len(plan.obj.steps) > 0
        THEN /\ messagesForTurn.panel
             /\ messagesForTurn.steps = plan.obj.steps
             /\ messagesForTurn.scratch = ScratchpadRender(scratchpad, chatTaskId)
             /\ messagesForTurn.summary
                    = RunningSummaryRender(runningSummary, chatTaskId).text
        ELSE /\ ~messagesForTurn.panel
             /\ messagesForTurn.steps = <<>>
             /\ messagesForTurn.scratch = <<>>
             /\ messagesForTurn.summary = <<>>

\* The plan has no step, the first turn wrote to the scratchpad and to the
\* running status, and the prompt of turn 2 holds neither.
C38_Witness ==
    /\ pc = "model"
    /\ turnCount = 2
    /\ ~plan.isNull
    /\ "steps" \in DOMAIN plan.obj
    /\ plan.obj.steps = <<>>
    /\ scratchpad[chatTaskId] # <<>>
    /\ runningSummary[chatTaskId] # NoSummary
    /\ ~messagesForTurn.panel
    /\ messagesForTurn.scratch = <<>>
    /\ messagesForTurn.summary = <<>>

\* C39: turnId grows by exactly 1 in the step that starts a chat() and in
\* no other step.  Every MemoryUnit a chat() records, for the user message,
\* a reply or a tool output, carries the turnId of that chat(), also when
\* the summarization that records it settles during a later chat(); units
\* of a later chat() therefore carry a strictly greater turnId.
C39_TurnIdPerChat ==
    /\ [](\A i \in 1..Len(stream) : stream[i].turnId \in 1..turnId)
    /\ [][ /\ (pc \in {"idle", "returned", "thrown"} /\ pc' = "planning")
               => turnId' = turnId + 1
           /\ turnId' # turnId
               => /\ pc \in {"idle", "returned", "thrown"}
                  /\ pc' = "planning"
           /\ \A p \in pendingSummaries' \ pendingSummaries :
                  p.turnId = turnId /\ turnId' = turnId
           /\ Len(stream') >= Len(stream)
           /\ SubSeq(stream', 1, Len(stream)) = stream
           /\ Len(stream') > Len(stream)
               => /\ Len(stream') = Len(stream) + 1
                  /\ turnId' = turnId
                  /\ IF pendingSummaries' = pendingSummaries
                     THEN stream'[Len(stream')].turnId = turnId
                     ELSE \E p \in pendingSummaries \ pendingSummaries' :
                             /\ stream'[Len(stream')].turnId = p.turnId
                             /\ stream'[Len(stream')].role = "tool" ]_vars

\* The tool output of the first chat() and a unit of the second one are in
\* the stream, with turnId 1 and 2.
C39_Witness ==
    /\ turnId = 2
    /\ Len(stream) = 2
    /\ stream[1].role = "tool"
    /\ stream[1].turnId = 1
    /\ stream[2].turnId = 2

\* The step appends an error tool result to the buffer of the turn.
AppendsErrorResult ==
    /\ Len(lastTurnMessages') = Len(lastTurnMessages) + 1
    /\ lastTurnMessages'[Len(lastTurnMessages')].role = "tool"
    /\ lastTurnMessages'[Len(lastTurnMessages')].tag
           \in {"invalid_json", "scratchpad_error", "summary_error",
                "not_found", "exec_error"}

\* C40: an error tool result (arguments that are not JSON, a tool nobody
\* registered, an error of a built-in tool, an exception of a provider) is
\* not written to the Memory Stream and adds no line to the digest of the
\* focus query: the step that appends it records no unit, starts no
\* summarization and leaves the digest of the turn alone.  The prompt of a
\* turn holds the raw messages of the turn before it, error results
\* included, and no message of an earlier turn.
C40_ErrorResultsOneTurnOnly ==
    /\ [](pc = "model" /\ turnCount >= 2 =>
             /\ messagesForTurn.prev = lastTurnMessages
             /\ \A i \in 1..Len(messagesForTurn.prev) :
                    messagesForTurn.prev[i].turn = turnCount - 1)
    /\ [](pc = "model" /\ turnCount = 1 => messagesForTurn.prev = <<>>)
    /\ [][AppendsErrorResult =>
             /\ stream' = stream
             /\ pendingSummaries' = pendingSummaries
             /\ toolSummaries' = toolSummaries
             /\ focusQuery' = focusQuery]_vars

\* The prompt of turn 2 shows the error result of the only call of turn 1;
\* no tool output is in the stream and the focus query has no digest.
C40_Witness ==
    /\ pc = "model"
    /\ turnCount = 2
    /\ Len(messagesForTurn.prev) = 2
    /\ messagesForTurn.prev[2].role = "tool"
    /\ messagesForTurn.prev[2].tag = "exec_error"
    /\ \A i \in 1..Len(stream) : stream[i].role # "tool"
    /\ focusQuery.digest = <<>>
    /\ pendingSummaries = {}

-----------------------------------------------------------------------------
\* The registry called while a chat() is planning: tasks are created, made
\* current and retitled by the caller of the agent between the steps of
\* chat() (SpecRetitle).

NextRetitle ==
    \/ \E input \in UserInputs : turnId < MaxChats /\ ChatStart(input)
    \/ \E recall \in RecallOutcomes(chatTaskId), planner \in PlannerOutcomes :
          Planning(recall, planner)
    \/ \E id \in RegistryIds : CallCreateTask("t", id)
    \/ \E id \in RegistryIds : CallSwitchTask(id)
    \/ \E id \in RegistryIds : CallUpdateTaskTitle(id, "r")

SpecRetitle == InitRegistry /\ [][NextRetitle]_vars

\* after is before with the title of the task id, if there is one, replaced.
Retitled(before, after, id, title) ==
    /\ Len(after) = Len(before)
    /\ \A i \in 1..Len(before) :
           after[i] = IF before[i].id = id
                      THEN [id |-> before[i].id, title |-> title,
                            status |-> before[i].status,
                            createdAt |-> before[i].createdAt]
                      ELSE before[i]

\* C32: updateTaskTitle(id, title) on an existing id returns true and
\* changes the title of that task only (its id, status and creation time,
\* the other tasks and the current pointer are kept); on an unknown id it
\* returns false and changes nothing.  In chat() a plan with a task title
\* retitles the task that was current when chat() was called, also when
\* another task was made current in the meantime; a plan without one
\* leaves the registry alone.
C32_RetitleOnlyTitle ==
    [][ /\ (storeOp' # storeOp /\ storeOp'.kind = "retitle") =>
             /\ currentTaskId' = currentTaskId
             /\ IF \E i \in 1..Len(tasks) : tasks[i].id = storeOp'.id
                THEN /\ storeOp'.returned = TRUE
                     /\ Retitled(tasks, tasks', storeOp'.id, storeOp'.title)
                ELSE /\ storeOp'.returned = FALSE
                     /\ tasks' = tasks
        /\ (pc = "planning" /\ pc' = "record") =>
             /\ currentTaskId' = currentTaskId
             /\ IF ~plan'.isNull /\ "taskTitle" \in DOMAIN plan'.obj
                THEN Retitled(tasks, tasks', chatTaskId, plan'.obj.taskTitle)
                ELSE tasks' = tasks ]_vars

\* The plan of the chat() called on task 1 carried a title while task 2 was
\* current: task 1 has the title of the plan and task 2 kept its own.
C32_Witness ==
    /\ pc = "record"
    /\ chatTaskId = 1
    /\ currentTaskId = 2
    /\ storeOp.kind = "switch"
    /\ ~plan.isNull
    /\ "taskTitle" \in DOMAIN plan.obj
    /\ TaskTitle(tasks, 1) = plan.obj.taskTitle
    /\ HasTask(tasks, 2)
    /\ TaskTitle(tasks, 2) = "t"

\* C33: when the retrieval that builds the prompt of turn n+1 has run, the
\* summarization of every tool output of the turns before it, of a
\* built-in tool or of a provider, has settled: no summarizeToolOutput
\* promise of an earlier turn of this chat() is still pending, so the unit
\* it records was in the stream for the retrieval to select.
C33_SummarizedBeforeRetrieval ==
    (pc = "model" /\ turnCount >= 2) =>
        \A p \in pendingSummaries :
            p.turnId = turnId => p.turn >= turnCount

-----------------------------------------------------------------------------
\* update_running_summary called with and without done, done being a list
\* or, against the schema, a string (SpecDone).

\* The argument objects: doing and next as required, done left out, one of
\* three lists, or a string.
DoneArgs ==
    { [doing |-> "d", next |-> "n"] } \cup
    { [done |-> v, doing |-> "d", next |-> "n"] :
          v \in {JArray(<<"s">>), JArray(<<"t">>), JArray(<<"s", "t">>),
                 JString("x")} }

NextDone ==
    \/ \E t \in StoreTasks, a \in DoneArgs : CallRunningSummaryUpdate(t, a, 0)
    \/ \E t \in StoreTasks : CallRunningSummaryClear(t)
    \/ \E t \in StoreTasks : CallRunningSummaryRender(t)

SpecDone == InitStores /\ [][NextDone]_vars

\* The items of a done value; a string has none.
Items(done) == { done.items[i] : i \in 1..Len(done.items) }

C37_ErrorLeavesStatusRenderable ==
    storeOp.kind = "status_update" =>
        /\ storeOp.threw => runningSummary = storeOp.runningSummary
        /\ ~RunningSummaryRender(runningSummary, storeOp.taskId).threw

====
